---- MODULE Spec2Model ----
(***************************************************************************)
(* zanaverse_onboarding: the row-level permission policy engine            *)
(* (permissions.py) and the provisioning reconciliation engine (cli.py).   *)
(*                                                                         *)
(* Python dicts are functions from their keys; d.get(k) of a missing key   *)
(* is None; {**a, **b} is b @@ a.                                          *)
(***************************************************************************)
EXTENDS Integers, Sequences, FiniteSets, TLC

VARIABLES
    \* ---- permissions.py: site files, site_config and the database ----
    globalFile,     \* blueprints/policy.yaml
    tenantFile,     \* blueprints/<slug>/policy.yaml
    conf,           \* frappe.local.conf: which policy keys site_config sets
    dbRoles,        \* frappe.get_roles(user)
    userPerms,      \* User Permission rows: <<user, allow, for_value>>
    meta,           \* <<doctype, fieldname>> pairs frappe.get_meta reports
    \* ---- permissions.py: frappe.local (request-scoped) ----
    zv_policy,      \* frappe.local._zv_policy: <<>> or <<policy>>
    rolesCache,     \* frappe.local._roles_<user>
    upCache,        \* frappe.local._up_<user>_<doctype>
    ret,            \* the last hook call of the request and what it returned
    \* ---- cli.py: _collect_blueprint / _merge_docs ----
    doc_sets,       \* the parsed *.yaml files of the blueprint, in sorted filename order
    mpos,           \* <<file, doc>>: the raw document _merge_docs handles next
    mergedDocs,     \* the local 'merged' of _merge_docs
    mpc,            \* "off" | "merging" | "done" | "thrown"
    \* ---- cli.py: provision ----
    opts,           \* dry_run, harden, and the host's naming rule for tax templates
    yamls,          \* companies/brands/role_profiles/users/letterheads.yaml of the blueprint
    docs,           \* local 'docs' of provision
    db,             \* the database as the run's transaction sees it
    committed,      \* what the last frappe.db.commit() made durable
    commits,        \* the steps of the run that called frappe.db.commit(), in order
    plan,           \* local 'plan'
    applied,        \* local 'applied'
    ws_summary,     \* local 'ws_summary'
    payload,        \* what provision returned (<<>> before it returns)
    ppc,            \* the step provision executes next
    pidx,           \* position of the running loop
    raced           \* a concurrent run of the same blueprint has inserted a document

polVars == <<globalFile, tenantFile, conf, dbRoles, userPerms, meta,
             zv_policy, rolesCache, upCache, ret>>

mergeVars == <<doc_sets, mpos, mergedDocs, mpc>>

provVars == <<opts, yamls, docs, db, committed, commits, plan, applied, ws_summary,
              payload, ppc, pidx, raced>>

vars == <<polVars, mergeVars, provVars>>

EmptyDict == [k \in {} |-> k]

\* d.get(k, dflt)
Get(d, k, dflt) == IF k \in DOMAIN d THEN d[k] ELSE dflt

\* YAML null as the value of a key
Null == [null |-> TRUE]

(***************************************************************************)
(* Policy Store                                                            *)
(***************************************************************************)

SessionUser == "alice"
Users == {"alice"}
NoUser == ""                       \* user=None
Roles == {"System Manager", "Sales User"}
Companies == {"Acme", "Beta"}
Brands == {"B1"}

DefaultDoctypes ==
    {"Lead", "Opportunity", "Customer", "Quotation", "Sales Order",
     "Project", "Task", "Employee", "Job Applicant", "Job Opening"}

DefaultCfg == [enabled |-> TRUE, company_field |-> "company", brand_field |-> "brand"]

\* the in-code defaults of _load_policy
DefaultPolicy ==
    [sensitive_roles     |-> [dt \in {"Employee"} |-> {"HR Manager", "HR Assistant"}],
     strict_default_deny |-> FALSE,
     pqc_doctypes        |-> [dt \in DefaultDoctypes |-> DefaultCfg]]

DeepKeys == <<"pqc_doctypes", "sensitive_roles">>

\* a policy file: missing, unreadable/malformed, or a mapping
NoFile  == [exists |-> FALSE, bad |-> FALSE, data |-> EmptyDict]
BadFile == [exists |-> TRUE,  bad |-> TRUE,  data |-> EmptyDict]
File(d) == [exists |-> TRUE,  bad |-> FALSE, data |-> d]

\* data.get(k) or {}
OrEmpty(v) == IF v = Null THEN EmptyDict ELSE v

\* one pass of the 'for k in ("pqc_doctypes", "sensitive_roles")' loop body;
\* st = [m |-> merged, raised |-> an exception left the try block]
_deep_merge_key(st, data, k) ==
    IF st.raised \/ k \notin DOMAIN data THEN st
    ELSE IF Get(st.m, k, EmptyDict) = Null
         THEN [st EXCEPT !.raised = TRUE]          \* {**None}: TypeError
         ELSE [st EXCEPT !.m = (k :> (OrEmpty(data[k]) @@ Get(st.m, k, EmptyDict))) @@ st.m]

\* the body of the 'for path in _policy_path_candidates()' loop
_apply_layer(merged, f) ==
    IF ~f.exists \/ f.bad THEN merged
    ELSE LET shallow == f.data @@ merged                 \* merged = {**merged, **data}
             s1 == _deep_merge_key([m |-> shallow, raised |-> FALSE], f.data, DeepKeys[1])
             s2 == _deep_merge_key(s1, f.data, DeepKeys[2])
         IN s2.m

_policy_path_candidates(c, g, t) ==
    IF c.policy_path THEN <<t>>
    ELSE IF c.blueprint \/ c.sites_map THEN <<g, t>>
    ELSE <<g>>

RECURSIVE _fold_layers(_, _)
_fold_layers(merged, files) ==
    IF files = <<>> THEN merged
    ELSE _fold_layers(_apply_layer(merged, Head(files)), Tail(files))

\* what _load_policy returns: the cached policy, else the layered one
_load_policy ==
    IF zv_policy # <<>> THEN zv_policy[1]
    ELSE IF ~conf.yaml THEN DefaultPolicy
    ELSE _fold_layers(DefaultPolicy, _policy_path_candidates(conf, globalFile, tenantFile))

_policy_for_doctype(doctype) ==
    LET m == OrEmpty(Get(_load_policy, "pqc_doctypes", EmptyDict))
    IN Get(m, doctype, EmptyDict)

_sensitive_roles_for(doctype) ==
    LET m == OrEmpty(Get(_load_policy, "sensitive_roles", EmptyDict))
    IN Get(m, doctype, {})

_strict_default_deny == Get(_load_policy, "strict_default_deny", FALSE)

_allowed(user, doctype) ==
    IF <<user, doctype>> \in DOMAIN upCache THEN upCache[<<user, doctype>>]
    ELSE {p[3] : p \in {q \in userPerms : q[1] = user /\ q[2] = doctype}}

user_scope(user) ==
    LET u == IF user = NoUser THEN SessionUser ELSE user
    IN [companies |-> _allowed(u, "Company"), brands |-> _allowed(u, "Brand")]

\* the schema is not consulted: every named field counts as present
_has_field_unchecked(doctype, fieldname) == fieldname # ""

_has_field(doctype, fieldname) ==
    IF fieldname = "" THEN FALSE ELSE <<doctype, fieldname>> \in meta

\* the roles read from the database on every call
_roles_for_uncached(user) == dbRoles[user]

_roles_for(user) ==
    IF user \in DOMAIN rolesCache THEN rolesCache[user] ELSE dbRoles[user]

BypassRoles == Get(_load_policy, "pqc_bypass_roles", {})

\* mutant: the user must hold every bypass role
_pqc_bypass_all(user) ==
    LET u == IF user = NoUser THEN SessionUser ELSE user
    IN IF BypassRoles = {} THEN FALSE
       ELSE BypassRoles \subseteq _roles_for(u)

_pqc_bypass(user) ==
    LET u == IF user = NoUser THEN SessionUser ELSE user
    IN IF BypassRoles = {} THEN FALSE
       ELSE (_roles_for(u) \cap BypassRoles) # {}

(***************************************************************************)
(* Predicate Composer: a predicate is the SQL text, kept as its syntax     *)
(* tree.  EMPTY is the empty string, DENY is "1=0".                        *)
(***************************************************************************)
EMPTY == [op |-> "empty"]
DENY  == [op |-> "1=0"]
InList(doctype, field, values) ==
    [op |-> "in", table |-> doctype, field |-> field, vals |-> values]
\* sep.join(conds): a single condition is that condition
Join(sep, conds) == IF Len(conds) = 1 THEN conds[1] ELSE [op |-> sep, args |-> conds]

\* mutant: strict_default_deny is not consulted
pqc_generic_nodeny(doctype, company_field, brand_field, user) ==
    IF _pqc_bypass(user) THEN EMPTY
    ELSE LET scope == user_scope(user)
             c1 == IF scope.companies # {} /\ _has_field(doctype, company_field)
                   THEN <<InList(doctype, company_field, scope.companies)>> ELSE <<>>
             c2 == IF scope.brands # {} /\ _has_field(doctype, brand_field)
                   THEN <<InList(doctype, brand_field, scope.brands)>> ELSE <<>>
             conds == c1 \o c2
         IN IF conds # <<>> THEN Join("AND", conds) ELSE EMPTY

pqc_generic(doctype, company_field, brand_field, user) ==
    IF _pqc_bypass(user) THEN EMPTY
    ELSE LET scope == user_scope(user)
             c1 == IF scope.companies # {} /\ _has_field(doctype, company_field)
                   THEN <<InList(doctype, company_field, scope.companies)>> ELSE <<>>
             c2 == IF scope.brands # {} /\ _has_field(doctype, brand_field)
                   THEN <<InList(doctype, brand_field, scope.brands)>> ELSE <<>>
             conds == c1 \o c2
         IN IF conds # <<>> THEN Join("AND", conds)
            ELSE IF _strict_default_deny THEN DENY ELSE EMPTY

\* cfg.get(k) or dflt
CfgField(cfg, k, dflt) == IF Get(cfg, k, "") = "" THEN dflt ELSE cfg[k]

_pqc_base_from_policy(doctype, user) ==
    LET cfg == _policy_for_doctype(doctype)
    IN IF cfg = EmptyDict \/ ~Get(cfg, "enabled", FALSE) THEN EMPTY
       ELSE pqc_generic(doctype,
                        CfgField(cfg, "company_field", "company"),
                        CfgField(cfg, "brand_field", "brand"),
                        user)

_exists_project_membership(user) == [op |-> "exists_project_user", user |-> user]
ExistsTaskProjectMembership(user) == [op |-> "exists_task_project_user", user |-> user]
ExistsTaskAssignment(user) == [op |-> "exists_todo", user |-> user]

pqc_project(user) ==
    IF _pqc_bypass(user) THEN EMPTY
    ELSE LET base == _pqc_base_from_policy("Project", user)
             members == _exists_project_membership(user)
         IN IF base # EMPTY /\ members # EMPTY
            THEN [op |-> "OR", args |-> <<base, members>>]
            ELSE IF members # EMPTY THEN members ELSE base

\* pqc_task without the direct-assignment clause
pqc_task_unassigned(user) ==
    IF _pqc_bypass(user) THEN EMPTY
    ELSE LET base == _pqc_base_from_policy("Task", user)
             members == ExistsTaskProjectMembership(user)
             conds == SelectSeq(<<base, members>>, LAMBDA c : c # EMPTY)
         IN IF conds # <<>> THEN [op |-> "OR", args |-> conds] ELSE EMPTY

pqc_task(user) ==
    IF _pqc_bypass(user) THEN EMPTY
    ELSE LET base == _pqc_base_from_policy("Task", user)
             members == ExistsTaskProjectMembership(user)
             assigned == ExistsTaskAssignment(user)
             conds == SelectSeq(<<base, members, assigned>>, LAMBDA c : c # EMPTY)
         IN IF conds # <<>> THEN [op |-> "OR", args |-> conds] ELSE EMPTY


(***************************************************************************)
(* What each hook call leaves in frappe.local                              *)
(***************************************************************************)
SessionOr(user) == IF user = NoUser THEN SessionUser ELSE user

\* _roles_for is reached only when the policy names bypass roles
RolesCacheAfter(user) ==
    IF BypassRoles = {} THEN rolesCache
    ELSE (SessionOr(user) :> _roles_for(SessionOr(user))) @@ rolesCache

\* user_scope caches both allow-lists of the user
UpCacheAfter(user) ==
    LET u == SessionOr(user)
    IN (<<u, "Company">> :> _allowed(u, "Company")) @@
       (<<u, "Brand">> :> _allowed(u, "Brand")) @@ upCache

Enabled(doctype) ==
    LET cfg == _policy_for_doctype(doctype)
    IN cfg # EmptyDict /\ Get(cfg, "enabled", FALSE)

Idle == [fn |-> "none", doctype |-> "", cf |-> "", bf |-> "", user |-> NoUser, out |-> EMPTY]

\* doctypes and field names the host calls the hooks with
CallDoctypes == {"Lead", "Invoice"}
FieldArgs == {"company", ""}
BrandArgs == {"brand", ""}
\* the explicit wrappers pqc_lead .. pqc_employee; others are generated from the policy
ExplicitWrappers ==
    {"Lead", "Opportunity", "Customer", "Quotation", "Sales Order",
     "Job Applicant", "Job Opening", "Employee"}

envVars == <<globalFile, tenantFile, conf, dbRoles, userPerms, meta>>

LoadPolicy ==
    /\ zv_policy' = <<_load_policy>>
    /\ ret' = [Idle EXCEPT !.fn = "_load_policy"]
    /\ UNCHANGED <<envVars, rolesCache, upCache, mergeVars, provVars>>

CallPqcGeneric ==
    \E dt \in CallDoctypes, cf \in FieldArgs, bf \in BrandArgs, user \in Users \cup {NoUser} :
        /\ ret' = [fn |-> "pqc_generic", doctype |-> dt, cf |-> cf, bf |-> bf,
                   user |-> user, out |-> pqc_generic(dt, cf, bf, user)]
        /\ zv_policy' = <<_load_policy>>
        /\ rolesCache' = RolesCacheAfter(user)
        /\ upCache' = IF _pqc_bypass(user) THEN upCache ELSE UpCacheAfter(user)
        /\ UNCHANGED <<envVars, mergeVars, provVars>>

\* pqc_lead(user) .. pqc_employee(user) and the generated wrappers
CallPqcWrapper ==
    \E dt \in CallDoctypes \cup {"Employee"}, user \in Users :
        /\ dt \in ExplicitWrappers \/ Enabled(dt)
        /\ ret' = [Idle EXCEPT !.fn = "pqc_wrapper", !.doctype = dt, !.user = user,
                               !.out = _pqc_base_from_policy(dt, user)]
        /\ zv_policy' = <<_load_policy>>
        /\ rolesCache' = IF Enabled(dt) THEN RolesCacheAfter(user) ELSE rolesCache
        /\ upCache' = IF Enabled(dt) /\ ~_pqc_bypass(user) THEN UpCacheAfter(user) ELSE upCache
        /\ UNCHANGED <<envVars, mergeVars, provVars>>

CallPqcProject ==
    \E user \in Users :
        /\ ret' = [Idle EXCEPT !.fn = "pqc_project", !.doctype = "Project", !.user = user,
                               !.out = pqc_project(user)]
        /\ zv_policy' = <<_load_policy>>
        /\ rolesCache' = RolesCacheAfter(user)
        /\ upCache' = IF Enabled("Project") /\ ~_pqc_bypass(user)
                      THEN UpCacheAfter(user) ELSE upCache
        /\ UNCHANGED <<envVars, mergeVars, provVars>>

CallPqcTask ==
    \E user \in Users :
        /\ ret' = [Idle EXCEPT !.fn = "pqc_task", !.doctype = "Task", !.user = user,
                               !.out = pqc_task(user)]
        /\ zv_policy' = <<_load_policy>>
        /\ rolesCache' = RolesCacheAfter(user)
        /\ upCache' = IF Enabled("Task") /\ ~_pqc_bypass(user)
                      THEN UpCacheAfter(user) ELSE upCache
        /\ UNCHANGED <<envVars, mergeVars, provVars>>

\* the request ends: frappe.local is discarded
NewRequest ==
    /\ ret # Idle
    /\ zv_policy' = <<>>
    /\ rolesCache' = EmptyDict
    /\ upCache' = EmptyDict
    /\ ret' = Idle
    /\ UNCHANGED <<envVars, mergeVars, provVars>>

PolNext ==
    \/ LoadPolicy
    \/ CallPqcGeneric
    \/ CallPqcWrapper
    \/ CallPqcProject
    \/ CallPqcTask
    \/ NewRequest

(***************************************************************************)
(* Sites the policy engine runs on                                         *)
(***************************************************************************)
BypassFile  == File([pqc_bypass_roles |-> {"System Manager", "Administrator"}])
StrictFile  == File([strict_default_deny |-> TRUE, pqc_bypass_roles |-> {"System Manager"}])
InvoiceFile == File([strict_default_deny |-> TRUE,
                     pqc_doctypes |-> [Invoice |-> [enabled |-> TRUE, company_field |-> "company"],
                                       Task |-> [enabled |-> FALSE]]])
LeadOffFile == File([pqc_doctypes |-> [Lead |-> [enabled |-> FALSE]]])
SalaryFile  == File([sensitive_roles |-> ("Salary Slip" :> {"HR Manager"})])
NullMapFile == File([pqc_doctypes |-> Null, strict_default_deny |-> TRUE])
EmptyFile   == File(EmptyDict)

LayerFiles == {NoFile, BadFile, EmptyFile, BypassFile, StrictFile, InvoiceFile,
               LeadOffFile, SalaryFile, NullMapFile}

Confs ==
    {[yaml |-> TRUE,  policy_path |-> FALSE, blueprint |-> TRUE,  sites_map |-> FALSE],
     [yaml |-> TRUE,  policy_path |-> FALSE, blueprint |-> FALSE, sites_map |-> TRUE],
     [yaml |-> TRUE,  policy_path |-> TRUE,  blueprint |-> TRUE,  sites_map |-> FALSE],
     [yaml |-> TRUE,  policy_path |-> FALSE, blueprint |-> FALSE, sites_map |-> FALSE],
     [yaml |-> FALSE, policy_path |-> FALSE, blueprint |-> TRUE,  sites_map |-> FALSE]}

AllPerms == {<<u, "Company", c>> : u \in Users, c \in Companies}
              \cup {<<u, "Brand", b>> : u \in Users, b \in Brands}

MetaFields == {"Lead", "Invoice", "Employee", "Project", "Task"} \X {"company", "brand"}
Metas == {MetaFields, {m \in MetaFields : m[2] = "company"}, {}}

MergeOff ==
    /\ doc_sets = <<>>
    /\ mpos = <<1, 1>>
    /\ mergedDocs = [keys |-> <<>>, docs |-> [k \in {} |-> k]]
    /\ mpc = "off"

ProvOff ==
    /\ opts = [dry_run |-> FALSE, harden |-> FALSE, autoname |-> "title"]
    /\ yamls = [k \in {} |-> k]
    /\ docs = <<>>
    /\ db = [k \in {} |-> k]
    /\ committed = [k \in {} |-> k]
    /\ commits = <<>>
    /\ plan = [create |-> <<>>, update |-> <<>>, noop |-> <<>>]
    /\ applied = [created |-> <<>>, updated |-> <<>>]
    /\ ws_summary = [k \in {} |-> k]
    /\ payload = <<>>
    /\ ppc = "off"
    /\ pidx = 1
    /\ raced = FALSE

LocalInit ==
    /\ zv_policy = <<>>
    /\ rolesCache = EmptyDict
    /\ upCache = EmptyDict
    /\ ret = Idle

\* the Policy Store over every pair of layer files
InitPolicy ==
    /\ globalFile \in LayerFiles
    /\ tenantFile \in LayerFiles
    /\ conf \in Confs
    /\ dbRoles = [u \in Users |-> {"System Manager"}]
    /\ userPerms = {<<"alice", "Company", "Acme">>}
    /\ meta = MetaFields
    /\ LocalInit
    /\ MergeOff
    /\ ProvOff

\* the Predicate Composer over every user scope
InitPqc ==
    /\ globalFile \in {NoFile, BypassFile}
    /\ tenantFile \in {NoFile, StrictFile, InvoiceFile}
    /\ conf = [yaml |-> TRUE, policy_path |-> FALSE, blueprint |-> TRUE, sites_map |-> FALSE]
    /\ dbRoles \in [Users -> SUBSET Roles]
    /\ userPerms \in SUBSET AllPerms
    /\ meta \in Metas
    /\ LocalInit
    /\ MergeOff
    /\ ProvOff

SpecPolicy == InitPolicy /\ [][PolNext]_vars
SpecPqc == InitPqc /\ [][PolNext]_vars


(***************************************************************************)
(* Properties of the Policy Store and the Predicate Composer               *)
(***************************************************************************)
Loaded == zv_policy # <<>>
Policy == zv_policy[1]

Candidates == _policy_path_candidates(conf, globalFile, tenantFile)

\* a layer file that is read and holds proper maps under the deep-merge keys
WellFormed(f) ==
    f.exists => /\ ~f.bad
                /\ \A i \in 1..Len(DeepKeys) : Get(f.data, DeepKeys[i], EmptyDict) # Null

\* the maps a key is layered from: the built-in default, then each layer file that sets it
Sources(k) ==
    <<Get(DefaultPolicy, k, EmptyDict)>> \o
    [i \in 1..Len(Candidates) |->
        IF Candidates[i].exists /\ ~Candidates[i].bad
        THEN Get(Candidates[i].data, k, EmptyDict) ELSE EmptyDict]

LastMention(k, dt) ==
    LET S == Sources(k)
        idx == {i \in 1..Len(S) : dt \in DOMAIN S[i]}
    IN CHOOSE i \in idx : \A j \in idx : j <= i

\* C1: with every layer file well formed, each doctype's entry of pqc_doctypes and of
\* sensitive_roles in the loaded policy is the one of the last layer that names that
\* doctype: an entry for one doctype in a later layer neither removes nor alters the
\* entries other doctypes inherit from the defaults and from earlier layers.
C1_LayeringKeepsOtherDoctypes ==
    (Loaded /\ conf.yaml /\ \A i \in 1..Len(Candidates) : WellFormed(Candidates[i]))
    => \A ki \in 1..Len(DeepKeys) :
         LET k == DeepKeys[ki]
             S == Sources(k)
         IN \A i \in 1..Len(S) : \A dt \in DOMAIN S[i] :
               /\ dt \in DOMAIN Policy[k]
               /\ Policy[k][dt] = S[LastMention(k, dt)][dt]

\* the user a hook call acts for, and whether the database gives that user a bypass role
Caller == SessionOr(ret.user)
PqcCalls == {"pqc_generic", "pqc_wrapper", "pqc_project", "pqc_task"}
HoldsBypassRole ==
    Loaded /\ (dbRoles[Caller] \cap Get(Policy, "pqc_bypass_roles", {})) # {}

\* C4: a user holding a role of the policy's pqc_bypass_roles gets the empty predicate
\* from pqc_generic, every policy-driven wrapper, pqc_project and pqc_task.
C4_BypassShortCircuit ==
    (ret.fn \in PqcCalls /\ HoldsBypassRole) => ret.out = EMPTY

DbScope(allow) == {p[3] : p \in {q \in userPerms : q[1] = Caller /\ q[2] = allow}}

C4_Witness ==
    /\ ret.fn = "pqc_task"
    /\ HoldsBypassRole
    /\ Get(Policy, "strict_default_deny", FALSE)
    /\ DbScope("Company") # {}
    /\ ret.out = EMPTY

\* the rows of tabProject / tabTask a predicate is evaluated on
Rows == [company : Companies, brand : Brands \cup {"B2"},
         members : SUBSET Users,            \* Project User rows of the (task's) project
         assignees : SUBSET Users]          \* ToDo rows allocated on the task

RECURSIVE Admits(_, _)
Admits(p, row) ==
    CASE p.op = "empty" -> TRUE
      [] p.op = "1=0" -> FALSE
      [] p.op = "in" -> row[p.field] \in p.vals
      [] p.op = "AND" -> \A i \in 1..Len(p.args) : Admits(p.args[i], row)
      [] p.op = "OR" -> \E i \in 1..Len(p.args) : Admits(p.args[i], row)
      [] p.op = "exists_project_user" -> p.user \in row.members
      [] p.op = "exists_task_project_user" -> p.user \in row.members
      [] p.op = "exists_todo" -> p.user \in row.assignees

\* C5: for a non-bypass user every Project (Task) row the generic predicate of the
\* doctype admits is admitted by pqc_project (pqc_task) too.
C5_MembershipOnlyAddsRows ==
    (ret.fn \in {"pqc_project", "pqc_task"} /\ ~HoldsBypassRole)
    => \A row \in Rows :
          Admits(_pqc_base_from_policy(ret.doctype, ret.user), row) => Admits(ret.out, row)

\* the field names the call resolves to
CallCompanyField ==
    IF ret.fn = "pqc_generic" THEN ret.cf
    ELSE CfgField(Get(OrEmpty(Get(Policy, "pqc_doctypes", EmptyDict)), ret.doctype, EmptyDict),
                  "company_field", "company")
CallBrandField ==
    IF ret.fn = "pqc_generic" THEN ret.bf
    ELSE CfgField(Get(OrEmpty(Get(Policy, "pqc_doctypes", EmptyDict)), ret.doctype, EmptyDict),
                  "brand_field", "brand")
PolicyEnabled(dt) ==
    LET m == OrEmpty(Get(Policy, "pqc_doctypes", EmptyDict))
    IN dt \in DOMAIN m /\ Get(m[dt], "enabled", FALSE)
NoClauseApplies ==
    /\ DbScope("Company") = {} \/ CallCompanyField = "" \/ <<ret.doctype, CallCompanyField>> \notin meta
    /\ DbScope("Brand") = {} \/ CallBrandField = "" \/ <<ret.doctype, CallBrandField>> \notin meta

\* C6: for a non-bypass user and a policy-enabled doctype with no company clause and no
\* brand clause, the generic predicate is "1=0" under strict_default_deny, else empty.
C6_DefaultDeny ==
    (/\ ret.fn \in {"pqc_generic", "pqc_wrapper"}
     /\ Loaded /\ ~HoldsBypassRole
     /\ ret.fn = "pqc_wrapper" => PolicyEnabled(ret.doctype)
     /\ NoClauseApplies)
    => ret.out = IF Get(Policy, "strict_default_deny", FALSE) THEN DENY ELSE EMPTY

C6_Witness ==
    /\ ret.fn = "pqc_wrapper"
    /\ PolicyEnabled(ret.doctype)
    /\ ~HoldsBypassRole
    /\ DbScope("Company") # {}
    /\ NoClauseApplies
    /\ ret.out = DENY


(***************************************************************************)
(* cli.py: blueprint documents.  A document is a dict from field names to  *)
(* YAML/Python values; each value carries its Python type.                 *)
(***************************************************************************)
VNone    == [t |-> "none"]
VStr(x)  == [t |-> "str", s |-> x]
VInt(i)  == [t |-> "int", n |-> i]
VBool(b) == [t |-> "bool", n |-> IF b THEN 1 ELSE 0]
VList(r) == [t |-> "list", rows |-> r]       \* a list of child rows (dicts)
VMap     == [t |-> "map"]                    \* {}

\* bool(v)
Truthy(v) ==
    CASE v.t = "none" -> FALSE
      [] v.t = "str"  -> v.s # ""
      [] v.t \in {"int", "bool"} -> v.n # 0
      [] v.t = "list" -> v.rows # <<>>
      [] v.t = "map"  -> FALSE

\* Python == on scalars: True == 1 and False == 0
PyEqScalar(a, b) ==
    IF a.t \in {"int", "bool"} /\ b.t \in {"int", "bool"} THEN a.n = b.n ELSE a = b

\* Python == on two child rows (dicts of scalars)
PyEqRow(r1, r2) ==
    DOMAIN r1 = DOMAIN r2 /\ \A k \in DOMAIN r1 : PyEqScalar(r1[k], r2[k])

\* Python == on field values
PyEq(a, b) ==
    IF a.t = "list" /\ b.t = "list"
    THEN /\ Len(a.rows) = Len(b.rows)
         /\ \A i \in 1..Len(a.rows) : PyEqRow(a.rows[i], b.rows[i])
    ELSE PyEqScalar(a, b)

DGet(d, k) == IF k \in DOMAIN d THEN d[k] ELSE VNone
\* d.setdefault(k, v)
SetDefault(d, k, v) == IF k \in DOMAIN d THEN d ELSE (k :> v) @@ d
\* d[k] = v
Put(d, k, v) == (k :> v) @@ d
\* d.pop(k, None)
Pop(d, k) == [x \in DOMAIN d \ {k} |-> d[x]]

TaxTemplate == "Sales Taxes and Charges Template"

_ensure_name(d) ==
    IF Truthy(DGet(d, "name")) THEN d
    ELSE LET d1 == IF Truthy(DGet(d, "title")) THEN Put(d, "name", d["title"]) ELSE d
         IN IF DGet(d1, "doctype") = VStr(TaxTemplate) /\ Truthy(DGet(d1, "title"))
            THEN LET nm == IF Truthy(DGet(d1, "company"))
                           THEN d1["title"].s \o " - " \o d1["company"].s
                           ELSE d1["title"].s
                 IN Put(d1, "name", VStr(nm))
            ELSE d1

_ensure_required_fields(d) ==
    LET dt == DGet(d, "doctype")
        d1 == IF dt = VStr("Brand") THEN SetDefault(d, "brand", DGet(d, "name")) ELSE d
        d2 == IF dt = VStr("Company") THEN SetDefault(d1, "company_name", DGet(d1, "name")) ELSE d1
        d3 == IF dt = VStr(TaxTemplate) THEN SetDefault(d2, "title", DGet(d2, "name")) ELSE d2
        d4 == IF dt = VStr("Role Profile") THEN SetDefault(d3, "role_profile", DGet(d3, "name")) ELSE d3
    IN d4

\* merged is a dict in insertion order: keys = the (doctype, name) keys in the order they
\* were first seen, docs = the document under each key
EmptyMerged == [keys |-> <<>>, docs |-> EmptyDict]

InSeq(x, sq) == \E i \in 1..Len(sq) : sq[i] = x

\* the same loop body without the check for a missing doctype or name
_merge_one_unchecked(merged, raw) ==
    LET d == _ensure_required_fields(_ensure_name(raw))
        doctype == DGet(d, "doctype")
        name == DGet(d, "name")
        key == <<IF Truthy(doctype) THEN doctype.s ELSE "", IF Truthy(name) THEN name.s ELSE "">>
        base == IF key \in DOMAIN merged.docs THEN merged.docs[key] ELSE EmptyDict
    IN [ok |-> TRUE,
        merged |-> [keys |-> IF InSeq(key, merged.keys) THEN merged.keys
                             ELSE Append(merged.keys, key),
                    docs |-> (key :> (d @@ base)) @@ merged.docs]]

\* the body of the inner loop of _merge_docs for one raw document; raises frappe.throw
\* (ok = FALSE) when doctype or name is missing
_merge_one(merged, raw) ==
    LET d == _ensure_required_fields(_ensure_name(raw))
        doctype == DGet(d, "doctype")
        name == DGet(d, "name")
    IN IF ~Truthy(doctype) \/ ~Truthy(name)
       THEN [ok |-> FALSE, merged |-> merged]
       ELSE LET key == <<doctype.s, name.s>>
                base == IF key \in DOMAIN merged.docs THEN merged.docs[key] ELSE EmptyDict
            IN [ok |-> TRUE,
                merged |-> [keys |-> IF InSeq(key, merged.keys) THEN merged.keys
                                     ELSE Append(merged.keys, key),
                            docs |-> (key :> (d @@ base)) @@ merged.docs]]

\* list(merged.values())
MergedValues(merged) == [i \in 1..Len(merged.keys) |-> merged.docs[merged.keys[i]]]


(***************************************************************************)
(* _merge_docs, one raw document at a time                                 *)
(***************************************************************************)
MaxFiles == 2

Doc(dt, fields) == ("doctype" :> VStr(dt)) @@ fields

RawDocs ==
    {Doc("Company", [name |-> VStr("Acme"), company_name |-> VStr("Acme Ltd")]),
     Doc("Company", [name |-> VStr("Acme"), abbr |-> VStr("A")]),
     Doc("Company", [name |-> VStr("Acme"), abbr |-> VNone, domain |-> VStr("Retail")]),
     Doc(TaxTemplate, [title |-> VStr("VAT"), company |-> VStr("Acme")]),
     Doc(TaxTemplate, [name |-> VStr("VAT - Acme"), tax_category |-> VStr("Std")]),
     Doc("Brand", [title |-> VStr("B1")]),
     Doc("Brand", [name |-> VStr("B1"), description |-> VStr("first")]),
     [title |-> VStr("Orphan")],
     Doc("Company", [abbr |-> VStr("A")])}

\* the docs lists of the blueprint files: one document, or a pair
BlueprintFiles ==
    {<<r>> : r \in RawDocs} \cup
    {<<Doc("Company", [name |-> VStr("Acme"), company_name |-> VStr("Acme Ltd")]),
       Doc("Brand", [title |-> VStr("B1")])>>,
     <<Doc("Brand", [name |-> VStr("B1"), description |-> VStr("first")]),
       Doc("Company", [name |-> VStr("Acme"), abbr |-> VStr("A")])>>,
     <<>>}

SeqsUpTo(S, n) == UNION {[1..k -> S] : k \in 0..n}

InitMerge ==
    /\ doc_sets \in SeqsUpTo(BlueprintFiles, MaxFiles)
    /\ mpos = <<1, 1>>
    /\ mergedDocs = EmptyMerged
    /\ mpc = "merging"
    /\ globalFile = NoFile /\ tenantFile = NoFile
    /\ conf = [yaml |-> TRUE, policy_path |-> FALSE, blueprint |-> TRUE, sites_map |-> FALSE]
    /\ dbRoles = [u \in Users |-> {}]
    /\ userPerms = {}
    /\ meta = {}
    /\ LocalInit
    /\ ProvOff

\* for d in ds.get("docs", []): one pass of the loop body
MergeDoc ==
    /\ mpc = "merging"
    /\ mpos[1] <= Len(doc_sets)
    /\ mpos[2] <= Len(doc_sets[mpos[1]])
    /\ LET r == _merge_one(mergedDocs, doc_sets[mpos[1]][mpos[2]])
       IN /\ mergedDocs' = r.merged
          /\ mpc' = IF r.ok THEN "merging" ELSE "thrown"
    /\ mpos' = <<mpos[1], mpos[2] + 1>>
    /\ UNCHANGED <<polVars, provVars, doc_sets>>

\* for ds in doc_sets: the next file
MergeNextFile ==
    /\ mpc = "merging"
    /\ mpos[1] <= Len(doc_sets)
    /\ mpos[2] > Len(doc_sets[mpos[1]])
    /\ mpos' = <<mpos[1] + 1, 1>>
    /\ UNCHANGED <<polVars, provVars, doc_sets, mergedDocs, mpc>>

\* return list(merged.values())
MergeReturn ==
    /\ mpc = "merging"
    /\ mpos[1] > Len(doc_sets)
    /\ mpc' = "done"
    /\ UNCHANGED <<polVars, provVars, doc_sets, mergedDocs, mpos>>

MergeNext == MergeDoc \/ MergeNextFile \/ MergeReturn

SpecMerge == InitMerge /\ [][MergeNext]_vars

\* the (doctype, name) a raw document is merged under
KeyOf(raw) ==
    LET d == _ensure_name(raw) IN <<DGet(d, "doctype"), DGet(d, "name")>>

\* the raw documents of the files, in load order
RECURSIVE Flatten(_)
Flatten(files) == IF files = <<>> THEN <<>> ELSE Head(files) \o Flatten(Tail(files))

\* C3: a merged document holds every field given for it in the files, each with the
\* value of the last-loaded file that gives it; a field given only in an earlier file
\* keeps that value when later files for the document omit it.
C3_MergeFieldByField ==
    mpc = "done" =>
      LET raws == Flatten(doc_sets)
      IN \A i \in 1..Len(raws) : \A f \in DOMAIN raws[i] \ {"doctype", "name"} :
           LET key == KeyOf(raws[i])
               later == {j \in (i+1)..Len(raws) : KeyOf(raws[j]) = key /\ f \in DOMAIN raws[j]}
               doc == mergedDocs.docs[<<key[1].s, key[2].s>>]
           IN later = {} => (f \in DOMAIN doc /\ doc[f] = raws[i][f])


(***************************************************************************)
(* cli.py: Workspace compare normalizers                                   *)
(***************************************************************************)
_WS_KEEP ==
    {"type", "label", "icon", "description", "hidden",
     "link_type", "link_to", "url", "doc_view", "kanban_board",
     "report_ref_doctype", "is_query_report", "dependencies",
     "only_for", "onboard", "color", "format", "stats_filter", "link_count"}

_WS_CHILD_TABLES ==
    <<"links", "shortcuts", "charts", "number_cards", "quick_lists", "custom_blocks">>

_coerce_bool_int(v) == IF v.t = "bool" THEN VInt(v.n) ELSE v

\* _is_trivial with only None trivial
_is_trivial_none_only(v) == v = VNone

\* v in (None, "", 0, [], {}): membership by Python ==, so False and 0 are both in
_is_trivial(v) ==
    \/ v = VNone
    \/ v = VStr("")
    \/ (v.t \in {"int", "bool"} /\ v.n = 0)
    \/ v = VList(<<>>)
    \/ v = VMap

\* str.strip() on the texts that carry surrounding whitespace; every other text of the
\* model has none and is returned as it is
StripTable == [s \in {" A ", " "} |-> IF s = " A " THEN "A" ELSE ""]
Strip(s) == IF s \in DOMAIN StripTable THEN StripTable[s] ELSE s

\* the value _clean_row keeps for key k, or VNone when the key is dropped
CleanValue(row, k) ==
    LET v == _coerce_bool_int(row[k])
    IN IF _is_trivial(v) THEN VNone
       ELSE IF v.t = "str"
            THEN (IF Strip(v.s) = "" THEN VNone ELSE VStr(Strip(v.s)))
            ELSE v

_clean_row(row) ==
    LET kept == {k \in _WS_KEEP \cap DOMAIN row : CleanValue(row, k) # VNone}
    IN [k \in kept |-> CleanValue(row, k)]

\* Python's order of the texts that occur in sort keys (code point order)
StrOrder == <<"", "A", "B", "Card Break", "Link">>
StrRank(s) == CHOOSE i \in 1..Len(StrOrder) : StrOrder[i] = s

\* the key of cleaned.sort: x.get(k, "") for the six key fields
SortFields == <<"type", "label", "link_type", "link_to", "doc_view", "url">>
SortKey(x) ==
    [i \in 1..Len(SortFields) |->
        IF SortFields[i] \in DOMAIN x THEN StrRank(x[SortFields[i]].s) ELSE StrRank("")]

\* tuple comparison a < b
RECURSIVE TupleLess(_, _)
TupleLess(a, b) ==
    IF a = <<>> THEN FALSE
    ELSE IF Head(a) < Head(b) THEN TRUE
    ELSE IF Head(a) > Head(b) THEN FALSE
    ELSE TupleLess(Tail(a), Tail(b))

\* list.sort is stable: x goes behind every row whose key is not greater than its own
RECURSIVE InsertStable(_, _)
InsertStable(sorted, x) ==
    IF sorted = <<>> THEN <<x>>
    ELSE IF TupleLess(SortKey(x), SortKey(Head(sorted))) THEN <<x>> \o sorted
    ELSE <<Head(sorted)>> \o InsertStable(Tail(sorted), x)

RECURSIVE StableSort(_)
StableSort(rows) ==
    IF rows = <<>> THEN <<>>
    ELSE InsertStable(StableSort(SubSeq(rows, 1, Len(rows) - 1)), rows[Len(rows)])

\* rows or []
RowsOf(v) == IF v.t = "list" THEN v.rows ELSE <<>>

Cleaned(rows) ==
    LET c == [i \in 1..Len(rows) |-> _clean_row(rows[i])]
    IN SelectSeq(c, LAMBDA r : r # EmptyDict)

_normalize_workspace_rows(v) == StableSort(Cleaned(RowsOf(v)))

RECURSIVE NormalizeTables(_, _)
NormalizeTables(d, i) ==
    IF i > Len(_WS_CHILD_TABLES) THEN d
    ELSE LET t == _WS_CHILD_TABLES[i]
         IN NormalizeTables(
              IF t \in DOMAIN d THEN Put(d, t, VList(_normalize_workspace_rows(d[t]))) ELSE d,
              i + 1)

_normalize_for_compare(d) ==
    LET d1 == Pop(d, "content")
    IN IF DGet(d1, "doctype") = VStr("Workspace")
       THEN NormalizeTables(Pop(Pop(d1, "sequence_id"), "onboarding_list"), 1)
       ELSE d1


(***************************************************************************)
(* The persistence layer (frappe.db / Document) as cli.py uses it.  A      *)
(* store maps <<doctype, name>> to the record's fields (as_dict).          *)
(***************************************************************************)
NoName == ""

\* frappe.db.exists(doctype, name)
Exists(store, doctype, name) == <<doctype, name>> \in DOMAIN store

\* the names frappe.db.get_value(doctype, filters, "name") can return: the records that
\* match every filter; which of several matches comes first is the host's choice
TaxMatches(store, title, company) ==
    {k[2] : k \in {x \in DOMAIN store :
                     /\ x[1] = TaxTemplate
                     /\ DGet(store[x], "title") = title
                     /\ (Truthy(company) => DGet(store[x], "company") = company)}}

\* for nm in candidates: if frappe.db.exists(...): return nm
RECURSIVE FirstExisting(_, _)
FirstExisting(store, cands) ==
    IF cands = <<>> THEN NoName
    ELSE IF Exists(store, TaxTemplate, Head(cands)) THEN Head(cands)
    ELSE FirstExisting(store, Tail(cands))

\* the resolver without the lookup by candidate names: the filter query alone
_resolve_tax_template_name_by_filter(d, store) ==
    IF DGet(d, "doctype") # VStr(TaxTemplate) THEN {NoName}
    ELSE LET title == IF Truthy(DGet(d, "title")) THEN d["title"] ELSE DGet(d, "name")
         IN IF ~Truthy(title) THEN {NoName}
            ELSE LET existing == TaxMatches(store, title, DGet(d, "company"))
                 IN IF existing # {} THEN existing ELSE {NoName}

\* the set of results the call can return (NoName for None)
_resolve_tax_template_name(d, store) ==
    IF DGet(d, "doctype") # VStr(TaxTemplate) THEN {NoName}
    ELSE LET title == IF Truthy(DGet(d, "title")) THEN d["title"] ELSE DGet(d, "name")
         IN IF ~Truthy(title) THEN {NoName}
            ELSE LET company == DGet(d, "company")
                     existing == TaxMatches(store, title, company)
                     abbr == IF Truthy(company) /\ Exists(store, "Company", company.s)
                             THEN DGet(store[<<"Company", company.s>>], "abbr")
                             ELSE VNone
                     candidates ==
                         <<title.s>> \o
                         (IF Truthy(company)
                          THEN <<title.s \o " - " \o company.s>> \o
                               (IF Truthy(abbr) THEN <<title.s \o " - " \o abbr.s>> ELSE <<>>)
                          ELSE <<>>)
                 IN IF existing # {} THEN existing
                    ELSE {FirstExisting(store, candidates)}

\* texts for which v.startswith("[") and v.endswith("]")
ArrayTexts == {"[]", "[\"intro\"]", "[{\"id\": \"b1\"}]"}

\* frappe.as_json of one child row, for the rows that occur in JSON columns
RowText(r) == IF r = [id |-> VStr("b1")] THEN "{\"id\": \"b1\"}" ELSE "{}"

RECURSIVE JoinRows(_)
JoinRows(rows) ==
    IF rows = <<>> THEN ""
    ELSE IF Len(rows) = 1 THEN RowText(rows[1])
    ELSE RowText(Head(rows)) \o ", " \o JoinRows(Tail(rows))

_jsonify_array(value) ==
    CASE value.t = "str" ->
           LET v == Strip(value.s)
           IN IF v \in ArrayTexts THEN v
              ELSE IF v = "" THEN "[]"
              ELSE "[\"" \o v \o "\"]"
      [] value.t = "list" -> "[" \o JoinRows(value.rows) \o "]"
      [] value.t \in {"none", "map"} -> "[]"
      [] value.t = "int" -> IF value.n = 0 THEN "[0]" ELSE "[1]"
      [] value.t = "bool" -> IF value.n = 0 THEN "[false]" ELSE "[true]"

_coerce_workspace_json_in_payload(pay) ==
    IF DGet(pay, "doctype") = VStr("Workspace")
    THEN [k \in DOMAIN pay |->
            IF k \in {"content", "onboarding_list"}
            THEN VStr(_jsonify_array(pay[k])) ELSE pay[k]]
    ELSE pay


\* the name the host gives a new Sales Taxes and Charges Template that arrives without
\* one; the naming rule is the host's, one of the three forms the resolver looks for
AutonameModes == {"title", "title_company", "title_abbr"}

\* the name of an inserted document: the given one, else the host's naming rule of the
\* doctype (Company by company_name, Module Def by module_name)
HostName(pay, store, mode) ==
    IF "name" \in DOMAIN pay THEN pay["name"].s
    ELSE IF pay["doctype"] = VStr("Company") THEN pay["company_name"].s
    ELSE IF pay["doctype"] = VStr("Module Def") THEN pay["module_name"].s
    ELSE LET title == DGet(pay, "title")
             company == DGet(pay, "company")
             abbr == IF Truthy(company) /\ Exists(store, "Company", company.s)
                     THEN DGet(store[<<"Company", company.s>>], "abbr")
                     ELSE VNone
         IN IF mode = "title_company" /\ Truthy(company) THEN title.s \o " - " \o company.s
            ELSE IF mode = "title_abbr" /\ Truthy(abbr) THEN title.s \o " - " \o abbr.s
            ELSE title.s

\* frappe.get_doc(payload).insert(): DuplicateEntryError (dup) when the name is taken
Insert(store, pay, mode) ==
    LET nm == HostName(pay, store, mode)
        key == <<pay["doctype"].s, nm>>
    IN IF key \in DOMAIN store
       THEN [dup |-> TRUE, store |-> store, name |-> nm]
       ELSE [dup |-> FALSE,
             store |-> (key :> Put(pay, "name", VStr(nm))) @@ store,
             name |-> nm]

\* doc.set(k, v) for every k of fields, then doc.save()
Save(store, key, fields) == [store EXCEPT ![key] = fields @@ @]

EmptyPlan == [create |-> <<>>, update |-> <<>>, noop |-> <<>>]
EmptyApplied == [created |-> <<>>, updated |-> <<>>]

\* a delta that takes every desired field, changed or not
DeltaOfAllFields(cur_n, new_n) == DOMAIN new_n \ {"doctype", "name"}

\* the delta of _plan_changes: the desired fields whose normalized value differs from
\* the normalized current value
Delta(cur_n, new_n) ==
    {k \in DOMAIN new_n \ {"doctype", "name"} : ~PyEq(DGet(cur_n, k), new_n[k])}

\* one pass of the loop of _plan_changes that forgets a document without changes
_plan_one_dropping_noop(pln, d0, store, resolved) ==
    LET d == IF d0["doctype"] = VStr(TaxTemplate) /\ resolved # NoName
             THEN Put(d0, "name", VStr(resolved)) ELSE d0
        doctype == d["doctype"]
        name == d["name"]
    IN IF ~Exists(store, doctype.s, name.s)
       THEN [pln EXCEPT !.create = Append(@, d)]
       ELSE LET cur_n == _normalize_for_compare(store[<<doctype.s, name.s>>])
                new_n == _normalize_for_compare(d)
                delta == Delta(cur_n, new_n)
                ident == [doctype |-> doctype, name |-> name]
            IN IF delta # {}
               THEN [pln EXCEPT !.update = Append(@, [k \in delta |-> new_n[k]] @@ ident)]
               ELSE pln

\* one pass of the loop of _plan_changes, with the resolver's result for d0
_plan_one(pln, d0, store, resolved) ==
    LET d == IF d0["doctype"] = VStr(TaxTemplate) /\ resolved # NoName
             THEN Put(d0, "name", VStr(resolved)) ELSE d0
        doctype == d["doctype"]
        name == d["name"]
    IN IF ~Exists(store, doctype.s, name.s)
       THEN [pln EXCEPT !.create = Append(@, d)]
       ELSE LET cur_n == _normalize_for_compare(store[<<doctype.s, name.s>>])
                new_n == _normalize_for_compare(d)
                delta == Delta(cur_n, new_n)
                ident == [doctype |-> doctype, name |-> name]
            IN IF delta # {}
               THEN [pln EXCEPT !.update = Append(@, [k \in delta |-> new_n[k]] @@ ident)]
               ELSE [pln EXCEPT !.noop = Append(@, ident)]

\* the except branch of the create loop with no fallback
_apply_create_nofallback(store, app, d, mode, existing) ==
    LET isTax == d["doctype"] = VStr(TaxTemplate)
        pay == _coerce_workspace_json_in_payload(IF isTax THEN Pop(d, "name") ELSE d)
        ins == Insert(store, pay, mode)
    IN IF ~ins.dup
       THEN [raised |-> FALSE, store |-> ins.store,
             applied |-> [app EXCEPT !.created = Append(@, <<d["doctype"].s, ins.name>>)]]
       ELSE [raised |-> TRUE, store |-> store, applied |-> app]

\* the create loop with a duplicate that finds no record passed over in silence
_apply_create_dropping(store, app, d, mode, existing) ==
    LET isTax == d["doctype"] = VStr(TaxTemplate)
        pay == _coerce_workspace_json_in_payload(IF isTax THEN Pop(d, "name") ELSE d)
        ins == Insert(store, pay, mode)
    IN IF ~ins.dup
       THEN [raised |-> FALSE, store |-> ins.store,
             applied |-> [app EXCEPT !.created = Append(@, <<d["doctype"].s, ins.name>>)]]
       ELSE IF isTax /\ existing # NoName
            THEN [raised |-> FALSE,
                  store |-> Save(store, <<TaxTemplate, existing>>,
                                 [k \in DOMAIN d \ {"doctype", "name"} |-> d[k]]),
                  applied |-> [app EXCEPT !.updated = Append(@, <<TaxTemplate, existing>>)]]
            ELSE [raised |-> FALSE, store |-> store, applied |-> app]

\* one pass of the create loop of _apply_plan; existing is the resolver's result in the
\* except branch
_apply_create(store, app, d, mode, existing) ==
    LET isTax == d["doctype"] = VStr(TaxTemplate)
        pay == _coerce_workspace_json_in_payload(IF isTax THEN Pop(d, "name") ELSE d)
        ins == Insert(store, pay, mode)
    IN IF ~ins.dup
       THEN [raised |-> FALSE, store |-> ins.store,
             applied |-> [app EXCEPT !.created = Append(@, <<d["doctype"].s, ins.name>>)]]
       ELSE IF isTax /\ existing # NoName
            THEN [raised |-> FALSE,
                  store |-> Save(store, <<TaxTemplate, existing>>,
                                 [k \in DOMAIN d \ {"doctype", "name"} |-> d[k]]),
                  applied |-> [app EXCEPT !.updated = Append(@, <<TaxTemplate, existing>>)]]
            ELSE [raised |-> TRUE, store |-> store, applied |-> app]

\* one pass of the update loop of _apply_plan
_apply_update(store, app, u) ==
    LET key == <<u["doctype"].s, u["name"].s>>
        fields == [k \in DOMAIN u \ {"doctype", "name"} |->
                     IF k \in {"content", "onboarding_list"} /\ u["doctype"] = VStr("Workspace")
                     THEN VStr(_jsonify_array(u[k])) ELSE u[k]]
    IN IF key \notin DOMAIN store
       THEN [raised |-> TRUE, store |-> store, applied |-> app]
       ELSE [raised |-> FALSE, store |-> Save(store, key, fields),
             applied |-> [app EXCEPT !.updated = Append(@, key)]]


(***************************************************************************)
(* cli.py: provision, step by step                                         *)
(***************************************************************************)
\* _merge_docs over all files; ok = FALSE when frappe.throw left the loop
RECURSIVE MergeAll(_, _)
MergeAll(merged, raws) ==
    IF raws = <<>> THEN [ok |-> TRUE, merged |-> merged]
    ELSE LET r == _merge_one(merged, Head(raws))
         IN IF r.ok THEN MergeAll(r.merged, Tail(raws)) ELSE r

_merge_docs(files) == MergeAll(EmptyMerged, Flatten(files))

\* the policy-side variables no provisioning step writes
polRest == <<globalFile, tenantFile, conf, meta, rolesCache, upCache, ret>>

inputVars == <<opts, yamls, doc_sets, mpos, mergedDocs, mpc>>

\* frappe.db.commit() at the end of the named step, with the store it makes durable
Commit(step, store, perms, roles) ==
    /\ committed' = [db |-> store, userPerms |-> perms, dbRoles |-> roles]
    /\ commits' = Append(commits, step)

NoCommit == UNCHANGED <<committed, commits>>

\* docs, assets_dir = _collect_blueprint(blueprint), then the Role Profile filter
CollectBlueprint ==
    /\ ppc = "collect"
    /\ LET r == _merge_docs(doc_sets)
       IN IF r.ok
          THEN /\ docs' = SelectSeq(MergedValues(r.merged),
                                    LAMBDA d : DGet(d, "doctype") # VStr("Role Profile"))
               /\ ppc' = "plan"
          ELSE /\ docs' = docs
               /\ ppc' = "failed"
    /\ pidx' = 1
    /\ NoCommit
    /\ UNCHANGED <<polRest, zv_policy, dbRoles, userPerms, inputVars, db, plan, applied,
                   ws_summary, payload, raced>>

\* _plan_changes: one pass of 'for d in docs'
PlanDoc ==
    /\ ppc = "plan"
    /\ pidx <= Len(docs)
    /\ \E resolved \in _resolve_tax_template_name(docs[pidx], db) :
          plan' = _plan_one(plan, docs[pidx], db, resolved)
    /\ pidx' = pidx + 1
    /\ NoCommit
    /\ UNCHANGED <<polRest, zv_policy, dbRoles, userPerms, inputVars, docs, db, applied,
                   ws_summary, payload, ppc, raced>>

\* _plan_changes returns; 'if dry_run:'
PlanDone ==
    /\ ppc = "plan"
    /\ pidx > Len(docs)
    /\ ppc' = IF opts.dry_run THEN "dry_harden" ELSE "baselines"
    /\ pidx' = 1
    /\ NoCommit
    /\ UNCHANGED <<polRest, zv_policy, dbRoles, userPerms, inputVars, docs, db, plan,
                   applied, ws_summary, payload, raced>>

WarehouseTypes == {"Transit", "Finished Goods", "Work In Progress", "Stores"}

\* the store after the seeding loop of _ensure_baselines
SeedWarehouseTypes(store) ==
    LET missing == {wt \in WarehouseTypes : ~Exists(store, "Warehouse Type", wt)}
    IN [k \in {<<"Warehouse Type", wt>> : wt \in missing} |->
          [doctype |-> VStr("Warehouse Type"), name |-> VStr(k[2])]] @@ store

EnsureBaselines ==
    /\ ppc = "baselines"
    /\ IF Exists(db, "DocType", "Warehouse Type")
       THEN /\ db' = SeedWarehouseTypes(db)
            /\ Commit("_ensure_baselines", db', userPerms, dbRoles)
       ELSE /\ db' = db
            /\ NoCommit
    /\ ppc' = "modules"
    /\ UNCHANGED <<polRest, zv_policy, dbRoles, userPerms, inputVars, docs, plan, applied,
                   ws_summary, payload, pidx, raced>>

\* the modules of the blueprint's Workspace documents
ModulesOf(ds) ==
    {ds[i]["module"].s : i \in {j \in 1..Len(ds) :
        DGet(ds[j], "doctype") = VStr("Workspace") /\ Truthy(DGet(ds[j], "module"))}}

\* _ensure_modules_for_docs: a Module Def for every module that has none
_ensure_modules_for_docs(store, ds) ==
    LET missing == {m \in ModulesOf(ds) : ~Exists(store, "Module Def", m)}
    IN [k \in {<<"Module Def", m>> : m \in missing} |->
          [doctype |-> VStr("Module Def"), name |-> VStr(k[2]), module_name |-> VStr(k[2]),
           app_name |-> VStr("zanaverse_onboarding")]] @@ store

EnsureModules ==
    /\ ppc = "modules"
    /\ db' = _ensure_modules_for_docs(db, docs)
    /\ ppc' = "apply"
    /\ pidx' = 1
    /\ NoCommit
    /\ UNCHANGED <<polRest, zv_policy, dbRoles, userPerms, inputVars, docs, plan, applied,
                   ws_summary, payload, raced>>

\* _apply_plan: one pass of 'for d in plan["create"]'
ApplyCreate ==
    /\ ppc = "apply"
    /\ pidx <= Len(plan.create)
    /\ \E existing \in _resolve_tax_template_name(plan.create[pidx], db) :
          LET r == _apply_create(db, applied, plan.create[pidx], opts.autoname, existing)
          IN /\ db' = r.store
             /\ applied' = r.applied
             /\ ppc' = IF r.raised THEN "failed" ELSE "apply"
    /\ pidx' = pidx + 1
    /\ NoCommit
    /\ UNCHANGED <<polRest, zv_policy, dbRoles, userPerms, inputVars, docs, plan,
                   ws_summary, payload, raced>>

\* _apply_plan: one pass of 'for d in plan["update"]'
ApplyUpdate ==
    /\ ppc = "apply"
    /\ pidx > Len(plan.create)
    /\ pidx <= Len(plan.create) + Len(plan.update)
    /\ LET r == _apply_update(db, applied, plan.update[pidx - Len(plan.create)])
       IN /\ db' = r.store
          /\ applied' = r.applied
          /\ ppc' = IF r.raised THEN "failed" ELSE "apply"
    /\ pidx' = pidx + 1
    /\ NoCommit
    /\ UNCHANGED <<polRest, zv_policy, dbRoles, userPerms, inputVars, docs, plan,
                   ws_summary, payload, raced>>

\* _apply_plan: frappe.db.commit(); return applied
ApplyCommit ==
    /\ ppc = "apply"
    /\ pidx > Len(plan.create) + Len(plan.update)
    /\ Commit("_apply_plan", db, userPerms, dbRoles)
    /\ ppc' = "companies"
    /\ pidx' = 1
    /\ UNCHANGED <<polRest, zv_policy, dbRoles, userPerms, inputVars, docs, db, plan,
                   applied, ws_summary, payload, raced>>

\* a concurrent provisioning run of the same blueprint inserts (and commits) one of the
\* documents this run has planned to create and has not inserted yet
ConcurrentRun ==
    /\ ppc \in {"baselines", "modules", "apply"}
    /\ ~raced
    /\ \E i \in 1..Len(plan.create) :
          /\ ppc = "apply" => i >= pidx
          /\ LET d == plan.create[i]
                 pay == _coerce_workspace_json_in_payload(
                            IF d["doctype"] = VStr(TaxTemplate) THEN Pop(d, "name") ELSE d)
                 ins == Insert(db, pay, opts.autoname)
                 key == <<d["doctype"].s, ins.name>>
             IN /\ ~ins.dup
                /\ db' = ins.store
                /\ committed' = [committed EXCEPT !.db = (key :> ins.store[key]) @@ @]
    /\ raced' = TRUE
    /\ UNCHANGED <<polRest, zv_policy, dbRoles, userPerms, inputVars, docs, commits, plan,
                   applied, ws_summary, payload, ppc, pidx>>

\* the exception leaves provision: the caller rolls back (install.py _run_once), or the
\* process ends and the open transaction is dropped
Rollback ==
    /\ ppc = "failed"
    /\ db' = committed.db
    /\ userPerms' = committed.userPerms
    /\ dbRoles' = committed.dbRoles
    /\ ppc' = "rolled_back"
    /\ UNCHANGED <<polRest, zv_policy, inputVars, docs, committed, commits, plan, applied,
                   ws_summary, payload, pidx, raced>>


(***************************************************************************)
(* cli.py: the simple YAML loaders.  A YAML row is a record of texts; a    *)
(* key the row does not give is absent from its domain.                    *)
(***************************************************************************)
\* row.get(k) of a YAML row, "" when the key is absent
YGet(row, k) == IF k \in DOMAIN row THEN row[k] ELSE ""

\* the value a text carries into a document field: None when the row has no such key
YVal(row, k) == IF k \in DOMAIN row THEN VStr(row[k]) ELSE VNone

\* one pass of the loop of _apply_companies_from_yaml
_apply_company(store, c) ==
    LET name == YGet(c, "company_name")
    IN IF name = "" THEN store
       ELSE IF Exists(store, "Company", name)
       THEN Save(store, <<"Company", name>>,
                 [k \in {f \in {"abbr", "default_currency"} : YGet(c, f) # ""} |-> VStr(c[k])])
       ELSE Insert(store, [doctype |-> VStr("Company"), company_name |-> VStr(name),
                           abbr |-> YVal(c, "abbr"),
                           default_currency |-> YVal(c, "default_currency")], "title").store

RECURSIVE _apply_companies_from_yaml(_, _)
_apply_companies_from_yaml(store, rows) ==
    IF rows = <<>> THEN store
    ELSE _apply_companies_from_yaml(_apply_company(store, Head(rows)), Tail(rows))

\* one pass of the loop of _apply_brands_from_yaml
_apply_brand(store, b) ==
    LET name == YGet(b, "brand")
    IN IF name = "" \/ Exists(store, "Brand", name) THEN store
       ELSE Insert(store, [doctype |-> VStr("Brand"), brand |-> VStr(name),
                           name |-> VStr(name)], "title").store

RECURSIVE _apply_brands_from_yaml(_, _)
_apply_brands_from_yaml(store, rows) ==
    IF rows = <<>> THEN store
    ELSE _apply_brands_from_yaml(_apply_brand(store, Head(rows)), Tail(rows))

_BRAND_TARGETS ==
    {"Lead", "Opportunity", "Customer", "Quotation", "Sales Order",
     "Project", "Task", "Employee", "Job Applicant", "Job Opening"}

\* any((cfg.get("brand_field") or "").strip() for cfg in pqc_doctypes.values())
NeedsBrand(pol) ==
    LET m == OrEmpty(Get(pol, "pqc_doctypes", EmptyDict))
    IN \E dt \in DOMAIN m : Strip(Get(m[dt], "brand_field", "")) # ""

\* _ensure_custom_field(dt, "brand", "Brand", "Link", options="Brand",
\* insert_after="company") for every target that has no such Custom Field yet
_ensure_brand_fields(store, fields) ==
    LET missing == {dt \in _BRAND_TARGETS : ~Exists(store, "Custom Field", dt \o "-brand")}
    IN [k \in {<<"Custom Field", dt \o "-brand">> : dt \in missing} |->
          LET dt == CHOOSE x \in missing : x \o "-brand" = k[2]
              base == [doctype |-> VStr("Custom Field"), name |-> VStr(k[2]),
                       dt |-> VStr(dt), fieldname |-> VStr("brand"),
                       label |-> VStr("Brand"), fieldtype |-> VStr("Link"),
                       options |-> VStr("Brand"), in_list_view |-> VInt(0)]
          IN IF <<dt, "company">> \in fields
             THEN Put(base, "insert_after", VStr("company")) ELSE base] @@ store

\* list(dict.fromkeys(roles)): the first occurrence of every role, in order
RECURSIVE Dedupe(_)
Dedupe(sq) ==
    IF sq = <<>> THEN <<>>
    ELSE LET front == Dedupe(SubSeq(sq, 1, Len(sq) - 1))
         IN IF InSeq(sq[Len(sq)], front) THEN front ELSE Append(front, sq[Len(sq)])

\* {r.role for r in doc.roles}
RolesOfRows(v) == {RowsOf(v)[i]["role"].s : i \in 1..Len(RowsOf(v))}

\* one pass of the loop with union_only=False: roles the file does not list are dropped
_apply_role_profile_exact(store, rp) ==
    LET name == YGet(rp, "name")
        roles == Dedupe(IF "roles" \in DOMAIN rp THEN rp["roles"] ELSE <<>>)
        key == <<"Role Profile", name>>
        doc == IF key \in DOMAIN store THEN store[key]
               ELSE [doctype |-> VStr("Role Profile"), name |-> VStr(name),
                     role_profile |-> VStr(name)]
        have == RolesOfRows(DGet(doc, "roles"))
        add == SelectSeq(roles, LAMBDA r : r \notin have)
        rows == RowsOf(DGet(doc, "roles")) \o [i \in 1..Len(add) |-> [role |-> VStr(add[i])]]
        keep == {roles[i] : i \in 1..Len(roles)}
    IN IF name = "" THEN store
       ELSE (key :> Put(doc, "roles",
                        VList(SelectSeq(rows, LAMBDA row : row["role"].s \in keep)))) @@ store

\* one pass of the loop of _apply_role_profiles_from_yaml (union_only=True)
_apply_role_profile(store, rp) ==
    LET name == YGet(rp, "name")
        roles == Dedupe(IF "roles" \in DOMAIN rp THEN rp["roles"] ELSE <<>>)
        key == <<"Role Profile", name>>
        doc == IF key \in DOMAIN store THEN store[key]
               ELSE [doctype |-> VStr("Role Profile"), name |-> VStr(name),
                     role_profile |-> VStr(name)]
        have == RolesOfRows(DGet(doc, "roles"))
        add == SelectSeq(roles, LAMBDA r : r \notin have)
        rows == RowsOf(DGet(doc, "roles")) \o [i \in 1..Len(add) |-> [role |-> VStr(add[i])]]
    IN IF name = "" THEN store
       ELSE (key :> Put(doc, "roles", VList(rows))) @@ store

RECURSIVE _apply_role_profiles_from_yaml(_, _)
_apply_role_profiles_from_yaml(store, rows) ==
    IF rows = <<>> THEN store
    ELSE _apply_role_profiles_from_yaml(_apply_role_profile(store, Head(rows)), Tail(rows))


\* the profiles a users.yaml row names: role_profile, then role_profiles
ProfilesOf(u) ==
    (IF YGet(u, "role_profile") # "" THEN <<u["role_profile"]>> ELSE <<>>) \o
    (IF "role_profiles" \in DOMAIN u THEN u["role_profiles"] ELSE <<>>)

\* _ensure_user_doc after the KeyError check: the User record and the user's roles
_ensure_user_doc(st, u, defaults) ==
    LET email == u["email"]
        key == <<"User", email>>
        fields == [email |-> VStr(email),
                   first_name |-> VStr(IF YGet(u, "full_name") # "" THEN u["full_name"] ELSE email),
                   language |-> IF YGet(u, "language") # "" THEN VStr(u["language"])
                                ELSE YVal(defaults, "language"),
                   time_zone |-> IF YGet(u, "time_zone") # "" THEN VStr(u["time_zone"])
                                 ELSE YVal(defaults, "time_zone"),
                   enabled |-> VInt(1),
                   send_welcome_email |-> VInt(0),
                   user_type |-> VStr(IF "is_desk_user" \in DOMAIN u /\ ~u["is_desk_user"]
                                      THEN "Website User" ELSE "System User")]
        doc == IF key \in DOMAIN st.db THEN st.db[key]
               ELSE [doctype |-> VStr("User"), name |-> VStr(email)]
        profiles == ProfilesOf(u)
        profile_roles ==
            UNION {RolesOfRows(DGet(st.db[<<"Role Profile", profiles[i]>>], "roles")) :
                     i \in {j \in 1..Len(profiles) :
                              profiles[j] # "" /\ Exists(st.db, "Role Profile", profiles[j])}}
        extra_roles == IF "roles" \in DOMAIN u THEN {u["roles"][i] : i \in 1..Len(u["roles"])}
                       ELSE {}
        target_roles == (profile_roles \cup extra_roles) \ {""}
    IN [st EXCEPT !.db = (key :> (fields @@ doc)) @@ @,
                  !.roles = [x \in DOMAIN @ |-> IF x = email THEN @[x] \cup target_roles
                                                 ELSE @[x]]]

\* _ensure_user_permission(user, allow, for_value)
_ensure_user_permission(st, user, allow, for_value) ==
    IF allow = "" \/ for_value = "" \/ ~Exists(st.db, allow, for_value) THEN st
    ELSE [st EXCEPT !.perms = @ \cup {<<user, allow, for_value>>}]

\* a brand_scope as the list the loop iterates; the YAML value is a text
\* ([text |-> ..]) or a list ([list |-> ..]), "All" and empty values are skipped
ScopeList(u) ==
    IF "brand_scope" \notin DOMAIN u THEN <<>>
    ELSE IF "list" \in DOMAIN u["brand_scope"] THEN u["brand_scope"].list
    ELSE IF u["brand_scope"].text \in {"", "All"} THEN <<>>
    ELSE <<u["brand_scope"].text>>

RECURSIVE EnsureBrandPermissions(_, _, _)
EnsureBrandPermissions(st, user, scope) ==
    IF scope = <<>> THEN st
    ELSE EnsureBrandPermissions(_ensure_user_permission(st, user, "Brand", Head(scope)),
                                user, Tail(scope))

\* _apply_users_from_yaml; st = [db, perms, roles, raised]; a row without "email" raises
\* KeyError in _ensure_user_doc and the rows before it stay written
RECURSIVE _apply_users_from_yaml(_, _, _)
_apply_users_from_yaml(st, rows, defaults) ==
    IF rows = <<>> THEN st
    ELSE LET u == Head(rows)
         IN IF "email" \notin DOMAIN u THEN [st EXCEPT !.raised = TRUE]
            ELSE LET s1 == _ensure_user_doc(st, u, defaults)
                     s2 == _ensure_user_permission(s1, u["email"], "Company", YGet(u, "company"))
                     s3 == EnsureBrandPermissions(s2, u["email"], ScopeList(u))
                 IN _apply_users_from_yaml(s3, Tail(rows), defaults)

\* int(r.get("public") or 0) == 1
IsPublic(rec) == LET v == DGet(rec, "public") IN v.t \in {"int", "bool"} /\ v.n = 1

ExcludeNames == {"Zanaverse Home"}

\* include_modules=None: every Workspace is in scope
NoModules == {}

\* frappe.get_all("Workspace", filters={"module": ["in", include_modules]}) when
\* include_modules is given, every Workspace otherwise
WorkspaceNames(store, include_modules) ==
    {k[2] : k \in {x \in DOMAIN store :
                     /\ x[1] = "Workspace"
                     /\ \/ include_modules = NoModules
                        \/ LET m == DGet(store[x], "module")
                           IN m.t = "str" /\ m.s \in include_modules}}

\* restrict_standard_workspaces(dry_run, include_modules, exclude_names, force):
\* the Workspace names it flips
ChangedNames(store, include_modules) ==
    {nm \in WorkspaceNames(store, include_modules) \ ExcludeNames :
        IsPublic(store[<<"Workspace", nm>>])}

\* the same with the dry_run flag ignored: the flips are written in any case
restrict_standard_workspaces_writing(store, dry, include_modules) ==
    LET rows == WorkspaceNames(store, include_modules)
        changed == ChangedNames(store, include_modules)
        skipped == rows \ changed
    IN [store |-> [k \in DOMAIN store |->
                      IF k[1] = "Workspace" /\ k[2] \in changed
                      THEN Put(store[k], "public", VInt(0)) ELSE store[k]],
        commit |-> changed # {},
        summary |-> [examined |-> Cardinality(rows),
                     changed |-> Cardinality(changed),
                     skipped |-> Cardinality(skipped),
                     changed_names |-> changed,
                     skipped_names |-> skipped]]

\* the same with include_modules ignored: every Workspace is in scope
restrict_standard_workspaces_unscoped(store, dry, include_modules) ==
    LET rows == WorkspaceNames(store, NoModules)
        changed == ChangedNames(store, NoModules)
        skipped == rows \ changed
    IN [store |-> IF dry THEN store
                  ELSE [k \in DOMAIN store |->
                          IF k[1] = "Workspace" /\ k[2] \in changed
                          THEN Put(store[k], "public", VInt(0)) ELSE store[k]],
        commit |-> ~dry /\ changed # {},
        summary |-> [examined |-> Cardinality(rows),
                     changed |-> Cardinality(changed),
                     skipped |-> Cardinality(skipped),
                     changed_names |-> changed,
                     skipped_names |-> skipped]]

restrict_standard_workspaces(store, dry, include_modules) ==
    LET rows == WorkspaceNames(store, include_modules)
        changed == ChangedNames(store, include_modules)
        skipped == rows \ changed
    IN [store |-> IF dry THEN store
                  ELSE [k \in DOMAIN store |->
                          IF k[1] = "Workspace" /\ k[2] \in changed
                          THEN Put(store[k], "public", VInt(0)) ELSE store[k]],
        commit |-> ~dry /\ changed # {},
        summary |-> [examined |-> Cardinality(rows),
                     changed |-> Cardinality(changed),
                     skipped |-> Cardinality(skipped),
                     changed_names |-> changed,
                     skipped_names |-> skipped]]


\* _upsert_letterhead(row)
_upsert_letterhead(store, row) ==
    LET key == <<"Letter Head", row["name"]>>
        doc == IF key \in DOMAIN store THEN store[key]
               ELSE [doctype |-> VStr("Letter Head"), name |-> VStr(row["name"]),
                     letter_head_name |-> VStr(row["name"])]
        fields == [source |-> VStr(IF "source" \in DOMAIN row THEN row["source"] ELSE "Image"),
                   content |-> VStr(YGet(row, "content"))]
        image == IF YGet(row, "image") # "" THEN [image |-> VStr(row["image"])] ELSE EmptyDict
    IN (key :> (image @@ fields @@ doc)) @@ store

\* _ensure_public_file: a public File record for the URL unless one exists
_ensure_public_file(store, public_url) ==
    IF Exists(store, "File", public_url) THEN store
    ELSE (<<"File", public_url>> :>
            [doctype |-> VStr("File"), name |-> VStr(public_url),
             file_url |-> VStr(public_url), is_private |-> VInt(0)]) @@ store

\* step 1 of apply_letterheads: stage files and upsert; st = [db, raised]
RECURSIVE StageLetterheads(_, _, _)
StageLetterheads(st, rows, assets) ==
    IF rows = <<>> THEN st
    ELSE LET row == Head(rows)
             staged == YGet(row, "image") # "" /\ YGet(row, "source_path") # ""
         IN IF staged /\ row["source_path"] \notin assets
            THEN [st EXCEPT !.raised = TRUE]
            ELSE StageLetterheads(
                   [st EXCEPT !.db = _upsert_letterhead(
                                       IF staged THEN _ensure_public_file(@, row["image"]) ELSE @,
                                       row)],
                   Tail(rows), assets)

LetterHeadNames(store) == {k[2] : k \in {x \in DOMAIN store : x[1] = "Letter Head"}}

\* the names the fallback of step 3 can pick as default when none is preferred
DefaultCandidates(store, lhconf) ==
    LET all_names == LetterHeadNames(store)
        keep == IF "keep_enabled" \in DOMAIN lhconf THEN lhconf["keep_enabled"] ELSE {}
        enabledAfter == IF keep # {} THEN all_names \cap keep
                        ELSE {nm \in all_names :
                                ~Truthy(DGet(store[<<"Letter Head", nm>>], "disabled"))}
    IN IF keep \cap all_names # {} THEN keep \cap all_names
       ELSE IF enabledAfter # {} THEN enabledAfter
       ELSE {NoName}

\* steps 2-4 of apply_letterheads on the staged store; pick is the fallback's choice
FlipLetterheads(store, lhconf, pick) ==
    LET all_names == LetterHeadNames(store)
        preferred == Strip(YGet(lhconf, "preferred_default"))
        keep == (IF "keep_enabled" \in DOMAIN lhconf THEN lhconf["keep_enabled"] ELSE {})
                \cup (IF preferred # "" THEN {preferred} ELSE {})
        missing == keep \ all_names
        flip(nm, rec) ==
            LET r1 == IF DGet(rec, "is_default") = VInt(1) THEN Put(rec, "is_default", VInt(0))
                      ELSE rec
                r2 == IF preferred # "" /\ nm = preferred
                      THEN Put(Put(r1, "is_default", VInt(1)), "disabled", VInt(0)) ELSE r1
                r3 == IF keep = {} THEN r2
                      ELSE IF nm \in keep THEN Put(r2, "disabled", VInt(0))
                      ELSE Put(Put(r2, "is_default", VInt(0)), "disabled", VInt(1))
                r4 == IF preferred = "" /\ pick # NoName /\ nm = pick
                      THEN Put(r3, "is_default", VInt(1)) ELSE r3
            IN r4
        defaults == IF "company_defaults" \in DOMAIN lhconf THEN lhconf["company_defaults"]
                    ELSE EmptyDict
    IN IF missing # {} THEN [raised |-> TRUE, db |-> store]
       ELSE [raised |-> FALSE,
             db |-> [k \in DOMAIN store |->
                       IF k[1] = "Letter Head" THEN flip(k[2], store[k])
                       ELSE IF k[1] = "Company" /\ k[2] \in DOMAIN defaults
                               /\ defaults[k[2]] \in all_names
                       THEN Put(store[k], "default_letter_head", VStr(defaults[k[2]]))
                       ELSE store[k]]]


\* _apply_companies_from_yaml(blueprint)
ApplyCompanies ==
    /\ ppc = "companies"
    /\ db' = _apply_companies_from_yaml(db, yamls.companies)
    /\ ppc' = "brands"
    /\ NoCommit
    /\ UNCHANGED <<polRest, zv_policy, dbRoles, userPerms, inputVars, docs, plan, applied,
                   ws_summary, payload, pidx, raced>>

\* _apply_brands_from_yaml(blueprint)
ApplyBrands ==
    /\ ppc = "brands"
    /\ db' = _apply_brands_from_yaml(db, yamls.brands)
    /\ ppc' = "custom_fields"
    /\ NoCommit
    /\ UNCHANGED <<polRest, zv_policy, dbRoles, userPerms, inputVars, docs, plan, applied,
                   ws_summary, payload, pidx, raced>>

\* _apply_brand_custom_fields_if_needed(); perm._load_policy() fills the policy cache
ApplyBrandCustomFields ==
    /\ ppc = "custom_fields"
    /\ zv_policy' = <<_load_policy>>
    /\ db' = IF NeedsBrand(_load_policy) THEN _ensure_brand_fields(db, meta) ELSE db
    /\ ppc' = "role_profiles"
    /\ NoCommit
    /\ UNCHANGED <<polRest, dbRoles, userPerms, inputVars, docs, plan, applied,
                   ws_summary, payload, pidx, raced>>

\* _apply_role_profiles_from_yaml(blueprint, union_only=True), which commits
ApplyRoleProfiles ==
    /\ ppc = "role_profiles"
    /\ db' = _apply_role_profiles_from_yaml(db, yamls.role_profiles)
    /\ Commit("_apply_role_profiles_from_yaml", db', userPerms, dbRoles)
    /\ ppc' = "module_profiles"
    /\ UNCHANGED <<polRest, zv_policy, dbRoles, userPerms, inputVars, docs, plan, applied,
                   ws_summary, payload, pidx, raced>>

\* _apply_module_profiles_from_yaml(blueprint): the override at the end of cli.py, a no-op
ApplyModuleProfiles ==
    /\ ppc = "module_profiles"
    /\ ppc' = "users"
    /\ NoCommit
    /\ UNCHANGED <<polRest, zv_policy, dbRoles, userPerms, inputVars, docs, db, plan,
                   applied, ws_summary, payload, pidx, raced>>

\* _apply_users_from_yaml(blueprint)
ApplyUsers ==
    /\ ppc = "users"
    /\ LET r == _apply_users_from_yaml(
                    [db |-> db, perms |-> userPerms, roles |-> dbRoles, raised |-> FALSE],
                    yamls.users, yamls.user_defaults)
       IN /\ db' = r.db
          /\ userPerms' = r.perms
          /\ dbRoles' = r.roles
          /\ ppc' = IF r.raised THEN "failed" ELSE "harden"
    /\ NoCommit
    /\ UNCHANGED <<polRest, zv_policy, inputVars, docs, plan, applied, ws_summary, payload,
                   pidx, raced>>

\* 'if harden and restrict_standard_workspaces:' of the apply branch
HardenWorkspaces ==
    /\ ppc = "harden"
    /\ IF opts.harden
       THEN LET r == restrict_standard_workspaces(db, FALSE, NoModules)
            IN /\ db' = r.store
               /\ ws_summary' = r.summary
               /\ IF r.commit THEN Commit("restrict_standard_workspaces", r.store,
                                          userPerms, dbRoles)
                  ELSE NoCommit
       ELSE /\ UNCHANGED <<db, ws_summary>>
            /\ NoCommit
    /\ ppc' = "letterheads"
    /\ UNCHANGED <<polRest, zv_policy, dbRoles, userPerms, inputVars, docs, plan, applied,
                   payload, pidx, raced>>

\* apply_letterheads(blueprint): returns at once without letterheads.yaml; otherwise
\* stages, validates, flips and commits, and frappe.throw leaves the staged rows written
ApplyLetterheads ==
    /\ ppc = "letterheads"
    /\ IF yamls.letterheads = EmptyDict
       THEN /\ db' = db
            /\ ppc' = "commit"
            /\ NoCommit
       ELSE LET rows == IF "letterheads" \in DOMAIN yamls.letterheads
                        THEN yamls.letterheads["letterheads"] ELSE <<>>
                staged == StageLetterheads([db |-> db, raised |-> FALSE], rows, yamls.assets)
            IN IF staged.raised
               THEN /\ db' = staged.db
                    /\ ppc' = "failed"
                    /\ NoCommit
               ELSE \E pick \in DefaultCandidates(staged.db, yamls.letterheads) :
                      LET r == FlipLetterheads(staged.db, yamls.letterheads, pick)
                      IN /\ db' = r.db
                         /\ IF r.raised
                            THEN /\ ppc' = "failed"
                                 /\ NoCommit
                            ELSE /\ ppc' = "commit"
                                 /\ Commit("apply_letterheads", r.db, userPerms, dbRoles)
    /\ UNCHANGED <<polRest, zv_policy, dbRoles, userPerms, inputVars, docs, plan, applied,
                   ws_summary, payload, pidx, raced>>

\* '# single commit at the end of provisioning': frappe.db.commit()
FinalCommit ==
    /\ ppc = "commit"
    /\ Commit("provision", db, userPerms, dbRoles)
    /\ ppc' = "log"
    /\ UNCHANGED <<polRest, zv_policy, dbRoles, userPerms, inputVars, docs, db, plan,
                   applied, ws_summary, payload, pidx, raced>>

\* summary_text: the three counts it prints
SummaryText(pln) ==
    [create |-> Len(pln.create), update |-> Len(pln.update), noop |-> Len(pln.noop)]

LogNames == <<"PL-1", "PL-2">>

\* make_log: a Provision Log under a fresh name
make_log(store, dry, summary, pln, status) ==
    LET n == Cardinality({k \in DOMAIN store : k[1] = "Provision Log"})
        name == LogNames[n + 1]
    IN (<<"Provision Log", name>> :>
          [doctype |-> VStr("Provision Log"), name |-> VStr(name),
           dry_run |-> VInt(IF dry THEN 1 ELSE 0),
           summary |-> [t |-> "text", v |-> summary],
           plan |-> [t |-> "json", v |-> pln],
           status |-> VStr(status)]) @@ store

\* _safe_log: make_log inserts and commits; when the Provision Log doctype is not
\* installed the insert raises and _safe_log swallows the exception
LogAndReturn(dry, status, result) ==
    /\ IF Exists(db, "DocType", "Provision Log")
       THEN /\ db' = make_log(db, dry, SummaryText(plan), plan, status)
            /\ Commit("make_log", db', userPerms, dbRoles)
       ELSE /\ db' = db
            /\ NoCommit
    /\ payload' = <<result>>
    /\ ppc' = "returned"

\* the tail of the apply branch: _safe_log(..., "SUCCESS", ...) and return payload
LogSuccess ==
    /\ ppc = "log"
    /\ LogAndReturn(FALSE, "SUCCESS",
                    [summary |-> SummaryText(plan), applied |-> applied,
                     workspace_hardening |-> ws_summary])
    /\ UNCHANGED <<polRest, zv_policy, dbRoles, userPerms, inputVars, docs, plan, applied,
                   ws_summary, pidx, raced>>

\* the dry-run branch: the hardening preview
DryRunHarden ==
    /\ ppc = "dry_harden"
    /\ IF opts.harden
       THEN LET r == restrict_standard_workspaces(db, TRUE, NoModules)
            IN /\ db' = r.store
               /\ ws_summary' = r.summary
               /\ IF r.commit THEN Commit("restrict_standard_workspaces", r.store,
                                          userPerms, dbRoles)
                  ELSE NoCommit
       ELSE /\ UNCHANGED <<db, ws_summary>>
            /\ NoCommit
    /\ ppc' = "dry_log"
    /\ UNCHANGED <<polRest, zv_policy, dbRoles, userPerms, inputVars, docs, plan,
                   applied, payload, pidx, raced>>

\* the dry-run branch: _safe_log(..., "DRY-RUN", ...) and return payload
DryRunLog ==
    /\ ppc = "dry_log"
    /\ LogAndReturn(TRUE, "DRY-RUN",
                    [summary |-> SummaryText(plan), plan |-> plan,
                     workspace_hardening |-> ws_summary])
    /\ UNCHANGED <<polRest, zv_policy, dbRoles, userPerms, inputVars, docs, plan, applied,
                   ws_summary, pidx, raced>>

ProvNext ==
    \/ CollectBlueprint \/ PlanDoc \/ PlanDone
    \/ DryRunHarden \/ DryRunLog
    \/ EnsureBaselines \/ EnsureModules
    \/ ApplyCreate \/ ApplyUpdate \/ ApplyCommit
    \/ ApplyCompanies \/ ApplyBrands \/ ApplyBrandCustomFields
    \/ ApplyRoleProfiles \/ ApplyModuleProfiles \/ ApplyUsers
    \/ HardenWorkspaces \/ ApplyLetterheads
    \/ FinalCommit \/ LogSuccess
    \/ ConcurrentRun \/ Rollback


(***************************************************************************)
(* Provisioning runs: blueprints, sites and options                        *)
(***************************************************************************)
MaxRows == 2

Rec(dt, nm, fields) == <<dt, nm>> :> (fields @@ [doctype |-> VStr(dt), name |-> VStr(nm)])

\* what the site has installed: the doctypes the baselines and the log need
FullSite == Rec("DocType", "Warehouse Type", EmptyDict) @@ Rec("DocType", "Provision Log", EmptyDict)
BareSite == EmptyDict

\* ---- companies and brands: plain documents ----
PlainBlueprints ==
    {<<>>,
     << <<Doc("Company", [name |-> VStr("Acme"), abbr |-> VStr("A")])>> >>,
     << <<Doc("Company", [name |-> VStr("Acme"), abbr |-> VStr("A"), domain |-> VStr("")])>> >>,
     << <<Doc("Company", [name |-> VStr("Acme"), abbr |-> VStr("A"), tax_id |-> VNone])>> >>,
     << <<Doc("Company", [name |-> VStr("Acme"), abbr |-> VStr("A"), is_group |-> VInt(0)])>>,
        <<Doc("Brand", [name |-> VStr("B1"), description |-> VStr("first")]),
          Doc("Role Profile", [name |-> VStr("Sales")])>> >>,
     << <<Doc("Brand", [title |-> VStr("B1")]), [title |-> VStr("Orphan")]>> >>,
     << <<Doc("Company", [name |-> VStr("Acme"), abbr |-> VStr("A")])>>,
        <<Doc("Company", [abbr |-> VStr("X"), name |-> VStr("")])>> >>}

PlainSites ==
    {BareSite, FullSite,
     FullSite @@ Rec("Company", "Acme", [company_name |-> VStr("Acme"), abbr |-> VStr("A")]),
     FullSite @@ Rec("Company", "Acme", [company_name |-> VStr("Acme"), abbr |-> VStr("AC"),
                                         domain |-> VStr("Retail")])
              @@ Rec("Brand", "B1", [brand |-> VStr("B1")])}

NoYamls ==
    [companies |-> <<>>, brands |-> <<>>, role_profiles |-> <<>>, users |-> <<>>,
     user_defaults |-> EmptyDict, letterheads |-> EmptyDict, assets |-> {}]

GoodYamls ==
    [companies |-> <<[company_name |-> "Acme", abbr |-> "AC"], [abbr |-> "X"]>>,
     brands |-> <<[brand |-> "B1"]>>,
     role_profiles |-> <<[name |-> "Sales", roles |-> <<"Sales User", "Sales User">>]>>,
     users |-> <<[email |-> "alice", role_profile |-> "Sales", company |-> "Acme",
                  brand_scope |-> [text |-> "B1"]]>>,
     user_defaults |-> [language |-> "en"],
     letterheads |-> [letterheads |-> <<[name |-> "LH1", image |-> "/files/lh1.png",
                                         source_path |-> "lh1.png"]>>,
                      preferred_default |-> "LH1",
                      company_defaults |-> [Acme |-> "LH1"]],
     assets |-> {"lh1.png"}]

\* users.yaml with a row that has no email
BadUsersYamls ==
    [GoodYamls EXCEPT !.users = <<[email |-> "alice", roles |-> <<"Sales User">>,
                                   brand_scope |-> [list |-> <<"B1", "B9">>]],
                                  [full_name |-> "Bob"]>>]

\* letterheads.yaml that names an image the assets directory does not hold
MissingAssetYamls == [GoodYamls EXCEPT !.assets = {}]

\* letterheads.yaml without a preferred default, and one that prefers an unknown name
KeepYamls ==
    [GoodYamls EXCEPT !.letterheads = [letterheads |-> <<[name |-> "LH1"], [name |-> "LH2"]>>,
                                       keep_enabled |-> {"LH1", "LH2"}]]
UnknownDefaultYamls ==
    [GoodYamls EXCEPT !.letterheads = [letterheads |-> <<[name |-> "LH1"]>>,
                                       preferred_default |-> "LH9"]]

PlainYamls == {NoYamls, GoodYamls, BadUsersYamls, MissingAssetYamls, KeepYamls,
               UnknownDefaultYamls}

Scenario(files, site, y, dry, harden, mode, tenant) ==
    [files |-> files, site |-> site, yamls |-> y, tenant |-> tenant,
     opts |-> [dry_run |-> dry, harden |-> harden, autoname |-> mode]]

PlainScenarios ==
    {Scenario(f, st, y, dry, FALSE, "title", t) :
        f \in PlainBlueprints, st \in PlainSites, y \in PlainYamls, dry \in BOOLEAN,
        t \in {NoFile, InvoiceFile}}


\* ---- tax templates ----
TaxAcme  == Doc(TaxTemplate, [title |-> VStr("VAT"), company |-> VStr("Acme"),
                              tax_category |-> VStr("Std")])
TaxPlain == Doc(TaxTemplate, [title |-> VStr("VAT"), tax_category |-> VStr("Zero")])
TaxAbbr  == Doc(TaxTemplate, [name |-> VStr("VAT - A"), title |-> VStr("VAT"),
                              company |-> VStr("Acme"), tax_category |-> VStr("Zero")])
CompanyAcme == Doc("Company", [name |-> VStr("Acme"), abbr |-> VStr("A")])

TaxBlueprints ==
    {<< <<TaxAcme>> >>, << <<TaxPlain>> >>, << <<TaxAbbr>> >>,
     << <<TaxPlain, TaxAcme>> >>, << <<TaxAcme>>, <<TaxAbbr>> >>,
     << <<CompanyAcme, TaxAcme>> >>, << <<TaxAcme, CompanyAcme>> >>}

TaxRecords ==
    {EmptyDict} \cup
    {Rec(TaxTemplate, nm, [title |-> VStr("VAT"), company |-> VStr("Acme")]) :
        nm \in {"VAT", "VAT - Acme", "VAT - A"}}
    \cup
    \* a template that was retitled after it got its name
    {Rec(TaxTemplate, nm, [title |-> VStr("VAT 20%")]) : nm \in {"VAT", "VAT - Acme", "VAT - A"}}
    \cup
    \* a template of another company that bears the bare title as its name
    {Rec(TaxTemplate, "VAT", [title |-> VStr("VAT"), company |-> VStr("Beta")])}

TaxSites ==
    {FullSite @@ c @@ t :
        c \in {EmptyDict,
               Rec("Company", "Acme", [company_name |-> VStr("Acme"), abbr |-> VStr("A")]),
               Rec("Company", "Acme", [company_name |-> VStr("Acme")])},
        t \in TaxRecords}

TaxScenarios ==
    {Scenario(f, st, NoYamls, FALSE, FALSE, mode, NoFile) :
        f \in TaxBlueprints, st \in TaxSites, mode \in AutonameModes}

\* ---- workspaces ----
RowA      == [label |-> VStr("A"), icon |-> VStr("x")]
RowA2     == [label |-> VStr("A"), icon |-> VStr("y")]
RowB      == [type |-> VStr("Link"), label |-> VStr("B")]
\* the row A as a hand-written blueprint may give it
RowADirty == [label |-> VStr(" A "), icon |-> VStr("x"), hidden |-> VBool(FALSE),
              url |-> VStr("")]
\* the row A with the host's bookkeeping on it
RowAHost  == [label |-> VStr("A"), icon |-> VStr("x"), hidden |-> VInt(0), idx |-> VInt(1)]
\* a row with nothing on it that is kept
RowBlank  == [idx |-> VInt(1), description |-> VNone]

BlueprintRows == {RowA, RowA2, RowB, RowADirty}
SiteRows == {RowAHost, RowA2, RowB, RowBlank}

Workspace(nm, fields) == Doc("Workspace", [name |-> VStr(nm)] @@ fields)

WorkspaceBlueprints ==
    {<< <<Workspace("Home", [public |-> VInt(1), links |-> VList(r)])>> >> :
        r \in SeqsUpTo(BlueprintRows, MaxRows)}
    \cup
    {<< <<Workspace("Home", [module |-> VStr("Core"), content |-> c, links |-> l]),
         Workspace("Zanaverse Home", [public |-> VInt(1), shortcuts |-> VNone])>> >> :
        c \in {VStr("intro"), VList(<<[id |-> VStr("b1")]>>)}, l \in {VList(<<>>), VNone}}

WorkspaceSites ==
    {FullSite} \cup
    {FullSite @@ Rec("Workspace", "Home", [public |-> VInt(p), links |-> VList(r)]) :
        p \in {0, 1}, r \in SeqsUpTo(SiteRows, MaxRows)}
    \cup
    {FullSite @@ Rec("Workspace", "Home", [module |-> VStr("Core"), content |-> VStr("[]"),
                                           sequence_id |-> VInt(3)])}

WorkspaceScenarios ==
    {Scenario(f, st, NoYamls, dry, h, "title", NoFile) :
        f \in WorkspaceBlueprints, st \in WorkspaceSites, dry \in BOOLEAN, h \in BOOLEAN}

Scenarios == PlainScenarios \cup TaxScenarios \cup WorkspaceScenarios

InitProvision ==
    \E sc \in Scenarios :
        /\ doc_sets = sc.files
        /\ db = sc.site
        /\ yamls = sc.yamls
        /\ opts = sc.opts
        /\ globalFile = NoFile
        /\ tenantFile = sc.tenant
        /\ conf = [yaml |-> TRUE, policy_path |-> FALSE, blueprint |-> TRUE, sites_map |-> FALSE]
        /\ dbRoles = [u \in Users |-> {}]
        /\ userPerms = {}
        /\ meta = MetaFields
        /\ LocalInit
        /\ mpos = <<1, 1>>
        /\ mergedDocs = EmptyMerged
        /\ mpc = "off"
        /\ docs = <<>>
        /\ committed = [db |-> sc.site, userPerms |-> {}, dbRoles |-> [u \in Users |-> {}]]
        /\ commits = <<>>
        /\ plan = EmptyPlan
        /\ applied = EmptyApplied
        /\ ws_summary = EmptyDict
        /\ payload = <<>>
        /\ ppc = "collect"
        /\ pidx = 1
        /\ raced = FALSE

SpecProvision == InitProvision /\ [][ProvNext]_vars


(***************************************************************************)
(* Properties of reconciliation and provisioning                           *)
(***************************************************************************)
\* _apply_plan has just returned and no other run has written in between
AppliedAlone == ppc = "companies" /\ ~raced

\* every classification a further _plan_changes can give document d over the store
Classes(d, store) ==
    {LET p == _plan_one(EmptyPlan, d, store, r)
     IN IF p.create # <<>> THEN "create" ELSE IF p.update # <<>> THEN "update" ELSE "noop" :
        r \in _resolve_tax_template_name(d, store)}

\* C2: after _plan_changes and a successful _apply_plan of that plan, _plan_changes over
\* the same documents classifies every document as noop: create and update are empty.
C2_Idempotence ==
    AppliedAlone => \A i \in 1..Len(docs) : Classes(docs[i], db) = {"noop"}


\* the step is one pass of the create loop of _apply_plan
CreateStep == ppc = "apply" /\ pidx <= Len(plan.create) /\ pidx' = pidx + 1

\* the insert of the entry at hand raises DuplicateEntryError
InsertFails ==
    LET d == plan.create[pidx]
        pay == _coerce_workspace_json_in_payload(
                  IF d["doctype"] = VStr(TaxTemplate) THEN Pop(d, "name") ELSE d)
    IN Insert(db, pay, opts.autoname).dup

\* the step has updated an existing tax template with every field of d and goes on
Recovered(d) ==
    /\ ppc' = "apply"
    /\ \E e \in _resolve_tax_template_name(d, db) \ {NoName} :
          /\ \A k \in DOMAIN d \ {"doctype", "name"} : db'[<<TaxTemplate, e>>][k] = d[k]
          /\ applied'.updated = Append(applied.updated, <<TaxTemplate, e>>)

CurrentOf(u) == db[<<u["doctype"].s, u["name"].s>>]

\* the rows of a child table without the keys whose value is None, "", 0, [] or {} and
\* without the keys the comparison ignores, rows left empty dropped
Material(rows) ==
    LET m == [i \in 1..Len(rows) |->
                [k \in {x \in DOMAIN rows[i] \cap _WS_KEEP :
                          ~(\/ rows[i][x] \in {VNone, VStr(""), VList(<<>>), VMap}
                            \/ (rows[i][x].t \in {"int", "bool"} /\ rows[i][x].n = 0))}
                   |-> rows[i][k]]]
    IN SelectSeq(m, LAMBDA r : r # EmptyDict)

ChildTables == {_WS_CHILD_TABLES[i] : i \in 1..Len(_WS_CHILD_TABLES)}

Count(rows, r) == Cardinality({i \in 1..Len(rows) : rows[i] = r})

\* two row lists are equal as multisets
SameRows(a, b) ==
    /\ Len(a) = Len(b)
    /\ \A i \in 1..Len(a) : Count(a, a[i]) = Count(b, a[i])

\* C9: for every Workspace child table, two orderings of rows that are equal as multisets
\* after cleaning get equal canonical forms from _normalize_for_compare.
C9_NormalizerOrderIndependent ==
    ppc = "plan" =>
      \A i \in 1..Len(docs) :
        LET d == docs[i]
            key == <<d["doctype"].s, d["name"].s>>
        IN (d["doctype"] = VStr("Workspace") /\ key \in DOMAIN db) =>
             \A t \in ChildTables \cap DOMAIN d \cap DOMAIN db[key] :
                SameRows(Cleaned(RowsOf(d[t])), Cleaned(RowsOf(db[key][t])))
                  => _normalize_for_compare(d)[t] = _normalize_for_compare(db[key])[t]

\* C10: a non-dry provisioning run issues no commit before all its apply steps have
\* finished, and its one commit at the end is the first the run issues.
C10_SingleCommitAtEnd ==
    (~opts.dry_run /\ ppc # "off") =>
        /\ ppc \notin {"log", "returned"} => commits = <<>>
        /\ ppc = "log" => commits = <<"provision">>

\* the fields of a Workspace record that hold array-encoded text
JsonColumns == {"content", "onboarding_list"}

\* a non-dry provision has returned its summary
RunCompleted == ppc = "returned" /\ ~opts.dry_run

\* C11: after a non-dry provisioning run has completed, every persisted Workspace record
\* holds a non-empty array-encoded string in content and in onboarding_list.
C11_WorkspaceArrayFields ==
    RunCompleted =>
      \A key \in DOMAIN db :
        key[1] = "Workspace" =>
          \A f \in JsonColumns :
            /\ f \in DOMAIN db[key]
            /\ db[key][f].t = "str"
            /\ db[key][f].s \in ArrayTexts

\* the records of a store other than the Provision Log entries
NotLogs(store) == {k \in DOMAIN store : k[1] # "Provision Log"}

\* C12 (as the code has it): no step of a dry run changes, removes or adds a persisted
\* record other than the run's Provision Log entry, which _safe_log inserts and commits
\* at the end of the run; no user permission or role is written, and nothing else is
\* committed.
C12_DryRunWritesOnlyItsLog ==
    [][opts.dry_run =>
         /\ NotLogs(db') = NotLogs(db)
         /\ \A k \in NotLogs(db) : db'[k] = db[k]
         /\ \A k \in DOMAIN db \ NotLogs(db) : k \in DOMAIN db' /\ db'[k] = db[k]
         /\ Cardinality(DOMAIN db') <= Cardinality(DOMAIN db) + 1
         /\ DOMAIN db' # DOMAIN db => ppc' = "returned"
         /\ userPerms' = userPerms /\ dbRoles' = dbRoles
         /\ commits' \in {commits, Append(commits, "make_log")}]_vars

\* C12 (as claimed): a dry run inserts nothing and commits nothing.
C12_DryRunWritesNothing ==
    [][opts.dry_run => (db' = db /\ commits' = commits)]_vars

\* a dry run with the hardening preview over a public Workspace has returned
C12_Witness ==
    /\ opts.dry_run /\ opts.harden
    /\ ppc = "returned"
    /\ ws_summary # EmptyDict /\ ws_summary.changed > 0
    /\ \E k \in DOMAIN db : k[1] = "Workspace" /\ IsPublic(db[k])
    /\ plan.update # <<>>

(***************************************************************************)
(* Properties of the Policy Store: failed layers and layering order        *)
(***************************************************************************)
\* reading or merging layer file f raises inside the try block of _load_policy
LayerFails(merged, f) ==
    /\ f.exists
    /\ \/ f.bad
       \/ LET s1 == _deep_merge_key([m |-> f.data @@ merged, raised |-> FALSE],
                                    f.data, DeepKeys[1])
          IN _deep_merge_key(s1, f.data, DeepKeys[2]).raised

\* the layering with every failing layer left out as a whole
RECURSIVE SkipFailed(_, _)
SkipFailed(merged, files) ==
    IF files = <<>> THEN merged
    ELSE IF LayerFails(merged, Head(files)) THEN SkipFailed(merged, Tail(files))
    ELSE SkipFailed(_apply_layer(merged, Head(files)), Tail(files))

\* C13: a layer file whose load raises is skipped as a whole: the loaded policy is what
\* the defaults and the other layers give, with nothing of the failed layer in it.
C13_FailedLayerSkippedWhole ==
    (Loaded /\ conf.yaml) => Policy = SkipFailed(DefaultPolicy, Candidates)

\* site_config locates a tenant policy file: by explicit path, by slug, or by the sites map
TenantLocated == conf.policy_path \/ conf.blueprint \/ conf.sites_map

\* C14: the loaded policy is the defaults, overridden by the global policy file, overridden
\* by the tenant policy file, whether the tenant file is located by the explicit configured
\* path or by slug lookup.
C14_GlobalThenTenant ==
    (Loaded /\ conf.yaml /\ TenantLocated)
    => Policy = _fold_layers(DefaultPolicy, <<globalFile, tenantFile>>)

(***************************************************************************)
(* Properties of provisioning: the run's log, failures and inputs          *)
(***************************************************************************)
\* the Provision Log records of a store
LogsOf(store) == {store[k] : k \in {x \in DOMAIN store : x[1] = "Provision Log"}}

\* provision has returned, or an exception has left it
RunEnded == ppc \in {"returned", "failed", "rolled_back"}

\* C15: on a site that has the Provision Log doctype, a run that has ended has produced
\* exactly one Provision Log record, and the record carries the run's status: DRY-RUN for a
\* dry run, SUCCESS for a run that returned, a failure status for a run that raised.
C15_EveryRunLogged ==
    (RunEnded /\ Exists(db, "DocType", "Provision Log"))
    => /\ Cardinality(LogsOf(db)) = 1
       /\ \A l \in LogsOf(db) :
            IF ppc = "returned"
            THEN l["status"] = VStr(IF opts.dry_run THEN "DRY-RUN" ELSE "SUCCESS")
            ELSE l["status"] \notin {VStr("DRY-RUN"), VStr("SUCCESS")}

\* the steps of provision that are not part of planning and applying the blueprint
\* documents: brand custom fields, workspace hardening (and its preview), letterheads
OptionalSteps == {"custom_fields", "harden", "dry_harden", "letterheads"}

\* C16: no failure of an optional step aborts the run: the step after it is reached and no
\* exception leaves provision.
C16_OptionalStepsNeverAbort ==
    [][(ppc \in OptionalSteps) => (ppc' # "failed")]_vars

\* the raw documents of the blueprint files, in reading order
RawInput == Flatten(doc_sets)

\* raw document raw still lacks a doctype or a name after _ensure_name and
\* _ensure_required_fields
Unresolvable(raw) ==
    LET d == _ensure_required_fields(_ensure_name(raw))
    IN ~Truthy(DGet(d, "doctype")) \/ ~Truthy(DGet(d, "name"))

HasUnresolvable == \E i \in 1..Len(RawInput) : Unresolvable(RawInput[i])

\* C17: when a blueprint document has no doctype or no name after name derivation and
\* back-fill, the run fails in loading: no document is planned, nothing is written and
\* nothing is committed.  Every document handed to _plan_changes has a non-empty doctype
\* and a non-empty name.
C17_UnresolvableDocAbortsRun ==
    /\ (HasUnresolvable /\ ppc # "collect")
          => /\ ppc \in {"failed", "rolled_back"}
             /\ docs = <<>> /\ plan = EmptyPlan /\ applied = EmptyApplied
             /\ commits = <<>> /\ db = committed.db
             /\ LogsOf(db) = {}
    /\ \A i \in 1..Len(docs) :
          Truthy(DGet(docs[i], "doctype")) /\ Truthy(DGet(docs[i], "name"))

\* loading has failed on a document without a name that follows a resolvable one
C17_Witness ==
    /\ ppc = "failed"
    /\ Len(RawInput) >= 2
    /\ ~Unresolvable(RawInput[1])
    /\ Unresolvable(RawInput[Len(RawInput)])
    /\ "doctype" \in DOMAIN RawInput[Len(RawInput)]
    /\ docs = <<>>

\* the document _plan_changes handles in this step is a tax-charge template
PlanTaxStep ==
    /\ ppc = "plan" /\ pidx <= Len(docs) /\ pidx' = pidx + 1
    /\ docs[pidx]["doctype"] = VStr(TaxTemplate)

\* the persisted templates document d identifies: those with d's title (and d's company,
\* when d gives one), and those named T, 'T - C' or 'T - <abbr of C>'
Identified(d, store) ==
    LET T == IF Truthy(DGet(d, "title")) THEN d["title"] ELSE DGet(d, "name")
        C == DGet(d, "company")
        byFields == {k[2] : k \in {x \in DOMAIN store :
                        /\ x[1] = TaxTemplate
                        /\ DGet(store[x], "title") = T
                        /\ Truthy(C) => DGet(store[x], "company") = C}}
        abbrs == IF Truthy(C) /\ <<"Company", C.s>> \in DOMAIN store
                    /\ Truthy(DGet(store[<<"Company", C.s>>], "abbr"))
                 THEN {store[<<"Company", C.s>>]["abbr"].s} ELSE {}
        names == {T.s} \cup (IF Truthy(C) THEN {T.s \o " - " \o C.s} ELSE {})
                       \cup {T.s \o " - " \o a : a \in abbrs}
    IN byFields \cup {nm \in names : <<TaxTemplate, nm>> \in DOMAIN store}

\* the entry the step has appended to the update or the noop list
NewEntries ==
    {plan'.update[i] : i \in (Len(plan.update) + 1)..Len(plan'.update)}
    \cup {plan'.noop[i] : i \in (Len(plan.noop) + 1)..Len(plan'.noop)}

\* C18: a tax-charge template document that identifies a persisted template, by title (and
\* company) or by one of the names T, 'T - C', 'T - <abbr of C>', is never planned as
\* create: _plan_changes enters it as update or noop under the name of such a record.
C18_TaxTemplateResolved ==
    [][(PlanTaxStep /\ Identified(docs[pidx], db) # {})
         => /\ plan'.create = plan.create
            /\ \E e \in NewEntries : e["name"].s \in Identified(docs[pidx], db)]_vars

\* a template document was planned against a record that does not bear the name the
\* blueprint gives it, found by name although its title differs
C18_Witness ==
    /\ ppc = "plan"
    /\ \E i \in 1..Len(docs) :
          /\ i < pidx
          /\ docs[i]["doctype"] = VStr(TaxTemplate)
          /\ \E j \in 1..Len(plan.update) :
                /\ plan.update[j]["doctype"] = VStr(TaxTemplate)
                /\ plan.update[j]["name"] # docs[i]["name"]
                /\ DGet(db[<<TaxTemplate, plan.update[j]["name"].s>>], "title") # docs[i]["title"]

(***************************************************************************)
(* Properties of the Predicate Composer: clauses of the predicates         *)
(***************************************************************************)
\* pqc_task has answered for a user without a bypass role and without any company or
\* brand allow-list
UnscopedTaskCall ==
    /\ ret.fn = "pqc_task"
    /\ Loaded /\ ~HoldsBypassRole
    /\ DbScope("Company") = {} /\ DbScope("Brand") = {}

\* C19 (as the code has it): for a non-bypass user without company or brand scope the Task
\* predicate is the OR of the project-membership clause and the assignment clause, both
\* always present, preceded by "1=0" when Task is policy-enabled under strict default
\* deny; on the tasks of projects the user is no member of it admits exactly the tasks
\* assigned to the user.
C19_TaskClausesOfUnscopedUser ==
    UnscopedTaskCall =>
      LET base == IF PolicyEnabled("Task") /\ Get(Policy, "strict_default_deny", FALSE)
                  THEN <<DENY>> ELSE <<>>
      IN /\ ret.out = [op |-> "OR",
                       args |-> base \o <<ExistsTaskProjectMembership(ret.user),
                                          ExistsTaskAssignment(ret.user)>>]
         /\ \A row \in Rows :
              ret.user \notin row.members
                 => (Admits(ret.out, row) <=> ret.user \in row.assignees)

\* C19 (as claimed): for such a user the Task predicate consists of the assignment clause
\* alone; the generic clause and the project-membership clause are omitted.
C19_OnlyAssignmentClause ==
    UnscopedTaskCall =>
      ret.out \in {ExistsTaskAssignment(ret.user),
                   [op |-> "OR", args |-> <<ExistsTaskAssignment(ret.user)>>]}

\* the Task predicate of an unscoped user under a policy without strict default deny
C19_Witness ==
    /\ UnscopedTaskCall
    /\ ~Get(Policy, "strict_default_deny", FALSE)
    /\ ret.out.op = "OR" /\ Len(ret.out.args) = 2

\* a generic predicate has been composed for a user without a bypass role
GenericCall ==
    /\ ret.fn \in {"pqc_generic", "pqc_wrapper"}
    /\ Loaded /\ ~HoldsBypassRole
    /\ ret.fn = "pqc_wrapper" => PolicyEnabled(ret.doctype)

\* the clause 'field IN (allowed values)' is due: the user's allow-list of the kind is not
\* empty and the doctype's schema has the field
ClauseDue(allow, field) ==
    DbScope(allow) # {} /\ field # "" /\ <<ret.doctype, field>> \in meta

\* the clause as SQL: `tab<doctype>`.`<field>` IN (<the user's allowed values>)
ClauseOf(allow, field) ==
    [op |-> "in", table |-> ret.doctype, field |-> field, vals |-> DbScope(allow)]

\* C20: for a non-bypass user and a policy-enabled doctype the generic predicate holds the
\* company clause exactly when the user's company scope is non-empty and the field is on
\* the doctype's schema, the brand clause likewise, the two joined with AND when both are
\* due, and each IN list is exactly the user's allowed values.
C20_GenericComposition ==
    GenericCall =>
      LET cc == ClauseDue("Company", CallCompanyField)
          bc == ClauseDue("Brand", CallBrandField)
          company == ClauseOf("Company", CallCompanyField)
          brand == ClauseOf("Brand", CallBrandField)
      IN CASE cc /\ bc   -> ret.out = [op |-> "AND", args |-> <<company, brand>>]
           [] cc /\ ~bc  -> ret.out = company
           [] ~cc /\ bc  -> ret.out = brand
           [] OTHER      -> ret.out \in {EMPTY, DENY}

\* a wrapper has composed both clauses for a user with two allowed companies
C20_Witness ==
    /\ GenericCall
    /\ ret.fn = "pqc_wrapper"
    /\ ret.out.op = "AND"
    /\ Cardinality(DbScope("Company")) = 2
    /\ DbScope("Brand") # {}

(***************************************************************************)
(* Properties of the plan and of its application                           *)
(***************************************************************************)
Identity == {"doctype", "name"}

\* the step is one pass of _plan_changes that appends an update entry
PlansUpdate ==
    /\ ppc = "plan" /\ pidx <= Len(docs) /\ pidx' = pidx + 1
    /\ Len(plan'.update) = Len(plan.update) + 1

\* the step is one pass of the update loop of _apply_plan that does not raise
AppliesUpdate ==
    /\ ppc = "apply" /\ pidx > Len(plan.create) /\ pidx' = pidx + 1
    /\ ppc' = "apply"

\* the value the update loop writes for field f of entry u
Written(u, f) ==
    IF f \in JsonColumns /\ u["doctype"] = VStr("Workspace")
    THEN VStr(_jsonify_array(u[f])) ELSE u[f]

\* C21: an update entry holds, besides doctype and name, exactly the fields of the
\* normalized blueprint document whose value differs from the normalized persisted value,
\* with their normalized desired values; applying the
\* entry writes these fields of that record and leaves every other field of the record,
\* and every other record, as it was.
C21_UpdateCarriesOnlyChanges ==
    [][/\ PlansUpdate =>
            LET u == plan'.update[Len(plan'.update)]
                d == docs[pidx]
                cur_n == _normalize_for_compare(CurrentOf(u))
                new_n == _normalize_for_compare(d)
            IN /\ u["doctype"] = d["doctype"]
               /\ DOMAIN u \ Identity =
                     {k \in DOMAIN new_n \ Identity : ~PyEq(DGet(cur_n, k), new_n[k])}
               /\ DOMAIN u \ Identity # {}
               /\ \A k \in DOMAIN u \ Identity : u[k] = new_n[k]
       /\ AppliesUpdate =>
            LET u == plan.update[pidx - Len(plan.create)]
                key == <<u["doctype"].s, u["name"].s>>
            IN /\ DOMAIN db' = DOMAIN db
               /\ \A other \in DOMAIN db \ {key} : db'[other] = db[other]
               /\ \A f \in DOMAIN db[key] \ (DOMAIN u \ Identity) : db'[key][f] = db[key][f]
               /\ \A f \in DOMAIN u \ Identity : db'[key][f] = Written(u, f)]_vars

\* an update entry that leaves out a field of its blueprint document has been applied, and
\* the record still holds a field the entry does not name
C21_Witness ==
    /\ ppc = "apply"
    /\ pidx > Len(plan.create) + 1
    /\ plan.update # <<>>
    /\ LET u == plan.update[1]
       IN /\ \E i \in 1..Len(docs) :
                /\ docs[i]["doctype"] = u["doctype"] /\ docs[i]["name"] = u["name"]
                /\ DOMAIN u # DOMAIN docs[i]
          /\ \E f \in DOMAIN CurrentOf(u) : f \notin DOMAIN u
          /\ \A f \in DOMAIN u \ Identity : CurrentOf(u)[f] = Written(u, f)

(***************************************************************************)
(* The request-scoped caches while the site changes under a request        *)
(***************************************************************************)
CacheFiles == {NoFile, BypassFile, StrictFile}
CachePerms == {{}, {<<"alice", "Company", "Acme">>}, {<<"alice", "Brand", "B1">>}}

\* an administrator edits the tenant policy file
ChangePolicyFile ==
    /\ \E f \in CacheFiles \ {tenantFile} : tenantFile' = f
    /\ UNCHANGED <<globalFile, conf, dbRoles, userPerms, meta, zv_policy, rolesCache,
                   upCache, ret, mergeVars, provVars>>

\* roles are granted to or taken from a user
ChangeRoles ==
    /\ \E r \in [Users -> SUBSET Roles] \ {dbRoles} : dbRoles' = r
    /\ UNCHANGED <<globalFile, tenantFile, conf, userPerms, meta, zv_policy, rolesCache,
                   upCache, ret, mergeVars, provVars>>

\* User Permission rows are added or deleted
ChangeUserPermissions ==
    /\ \E p \in CachePerms \ {userPerms} : userPerms' = p
    /\ UNCHANGED <<globalFile, tenantFile, conf, dbRoles, meta, zv_policy, rolesCache,
                   upCache, ret, mergeVars, provVars>>

InitCache ==
    /\ globalFile = NoFile
    /\ tenantFile \in CacheFiles
    /\ conf = [yaml |-> TRUE, policy_path |-> FALSE, blueprint |-> TRUE, sites_map |-> FALSE]
    /\ dbRoles \in [Users -> SUBSET Roles]
    /\ userPerms \in CachePerms
    /\ meta = MetaFields
    /\ LocalInit
    /\ MergeOff
    /\ ProvOff

CacheNext ==
    \/ LoadPolicy \/ CallPqcGeneric \/ CallPqcWrapper \/ CallPqcProject \/ CallPqcTask
    \/ NewRequest
    \/ ChangePolicyFile \/ ChangeRoles \/ ChangeUserPermissions

SpecCache == InitCache /\ [][CacheNext]_vars

\* what the site gives at this moment, the caches set aside
FreshPolicy == _fold_layers(DefaultPolicy, Candidates)
FreshScope(u, allow) == {p[3] : p \in {q \in userPerms : q[1] = u /\ q[2] = allow}}

\* the three caches are emptied together
CachesDropped == zv_policy' = <<>> /\ rolesCache' = EmptyDict /\ upCache' = EmptyDict

\* C22: within a request each cache entry is written once, with the value the site gives at
\* the first access, and every later call returns the cached value whatever the policy
\* files, the user's roles and the User Permission rows have become; entries only go away
\* when the request ends, which empties all caches together.
C22_CachesWriteOnce ==
    [][/\ zv_policy # <<>> => (zv_policy' = zv_policy \/ CachesDropped)
       /\ \A u \in DOMAIN rolesCache :
             (u \in DOMAIN rolesCache' /\ rolesCache'[u] = rolesCache[u]) \/ CachesDropped
       /\ \A k \in DOMAIN upCache :
             (k \in DOMAIN upCache' /\ upCache'[k] = upCache[k]) \/ CachesDropped
       /\ (zv_policy = <<>> /\ zv_policy' # <<>>) => zv_policy'[1] = FreshPolicy
       /\ \A u \in DOMAIN rolesCache' \ DOMAIN rolesCache : rolesCache'[u] = dbRoles[u]
       /\ \A k \in DOMAIN upCache' \ DOMAIN upCache : upCache'[k] = FreshScope(k[1], k[2])
       /\ zv_policy' # <<>> => _load_policy' = zv_policy'[1]
       /\ \A u \in DOMAIN rolesCache' : _roles_for(u)' = rolesCache'[u]
       /\ \A k \in DOMAIN upCache' : _allowed(k[1], k[2])' = upCache'[k]]_vars

\* a hook has answered from caches that no longer agree with the site: the policy file,
\* the user's roles and the user's permission rows have all changed since the first access
C22_Witness ==
    /\ ret.fn = "pqc_task"
    /\ Loaded /\ Policy # FreshPolicy
    /\ "alice" \in DOMAIN rolesCache /\ rolesCache["alice"] # dbRoles["alice"]
    /\ <<"alice", "Company">> \in DOMAIN upCache
    /\ upCache[<<"alice", "Company">>] # FreshScope("alice", "Company")

(***************************************************************************)
(* permissions.py: has_permission_generic, the document-level guard        *)
(***************************************************************************)
NoUserId == ""                     \* the document has no user_id

\* has_permission_generic with the permission type ignored in the own-record rule
has_permission_generic_any_ptype(doc, ptype, user) ==
    LET u == SessionOr(user)
        roles_needed == _sensitive_roles_for(doc.doctype)
    IN IF _pqc_bypass(u) THEN TRUE
       ELSE IF roles_needed # {} /\ (_roles_for(u) \cap roles_needed) # {} THEN TRUE
       ELSE doc.doctype = "Employee" /\ doc.user_id = u

has_permission_generic(doc, ptype, user) ==
    LET u == SessionOr(user)
        roles_needed == _sensitive_roles_for(doc.doctype)
    IN IF _pqc_bypass(u) THEN TRUE
       ELSE IF roles_needed # {} /\ (_roles_for(u) \cap roles_needed) # {} THEN TRUE
       ELSE IF doc.doctype = "Employee" /\ ptype = "read" /\ doc.user_id = u THEN TRUE
       ELSE FALSE

GuardDoctypes == {"Employee", "Salary Slip", "Lead"}
Ptypes == {"read", "write"}
UserIds == {"alice", "bob", NoUserId}

\* the host asks the guard about a document
CallHasPermission ==
    \E dt \in GuardDoctypes, uid \in UserIds, ptype \in Ptypes, user \in Users \cup {NoUser} :
        LET doc == [doctype |-> dt, user_id |-> uid]
        IN /\ ret' = [fn |-> "has_permission_generic", doctype |-> dt, user_id |-> uid,
                      ptype |-> ptype, user |-> user,
                      out |-> has_permission_generic(doc, ptype, user)]
           /\ zv_policy' = <<_load_policy>>
           /\ rolesCache' = IF BypassRoles # {} \/ _sensitive_roles_for(dt) # {}
                            THEN (SessionOr(user) :> _roles_for(SessionOr(user))) @@ rolesCache
                            ELSE rolesCache
           /\ UNCHANGED <<envVars, upCache, mergeVars, provVars>>

GuardRoles == {"System Manager", "HR Manager"}

InitGuard ==
    /\ globalFile \in {NoFile, SalaryFile}
    /\ tenantFile \in {NoFile, BypassFile, StrictFile, NullMapFile}
    /\ conf = [yaml |-> TRUE, policy_path |-> FALSE, blueprint |-> TRUE, sites_map |-> FALSE]
    /\ dbRoles \in [Users -> SUBSET GuardRoles]
    /\ userPerms = {}
    /\ meta = MetaFields
    /\ LocalInit
    /\ MergeOff
    /\ ProvOff

GuardNext == CallHasPermission \/ LoadPolicy \/ NewRequest

SpecGuard == InitGuard /\ [][GuardNext]_vars

\* the roles the loaded policy lists as sensitive for the document's doctype
SensitiveRoles ==
    LET m == Get(Policy, "sensitive_roles", EmptyDict)
    IN IF m = Null \/ ret.doctype \notin DOMAIN m THEN {} ELSE m[ret.doctype]

\* C23: has_permission_generic returns True exactly when the user holds a PQC bypass role,
\* or holds one of the roles the policy lists as sensitive for the document's doctype, or
\* the document is an Employee, the permission type is read and doc.user_id is the user;
\* otherwise it returns False.
C23_GuardExactly ==
    (ret.fn = "has_permission_generic" /\ Loaded)
    => (ret.out <=> \/ HoldsBypassRole
                    \/ (dbRoles[Caller] \cap SensitiveRoles) # {}
                    \/ (ret.doctype = "Employee" /\ ret.ptype = "read"
                        /\ ret.user_id = Caller))

\* a user without bypass or sensitive role was refused write access to the own Employee
\* record
C23_Witness ==
    /\ ret.fn = "has_permission_generic"
    /\ ret.doctype = "Employee" /\ ret.ptype = "write" /\ ret.user_id = Caller
    /\ Get(Policy, "pqc_bypass_roles", {}) # {}
    /\ ~HoldsBypassRole
    /\ ret.out = FALSE

(***************************************************************************)
(* restrict_standard_workspaces called on its own, with a module scope     *)
(***************************************************************************)
HardenNames == {"Zanaverse Home", "Home", "Accounting"}
HardenModules == {"Core", "Accounts"}
ModuleScopes == {NoModules, {"Accounts"}, {"Core", "Accounts"}}

\* a Workspace row as the desk stores it; public may be unset
HardenRows ==
    {[public |-> p, module |-> VStr(m)] : p \in {VInt(0), VInt(1), VNone}, m \in HardenModules}

HardenSites ==
    {FullSite @@ Rec("Workspace", "Zanaverse Home", a) @@ Rec("Workspace", "Home", b)
              @@ Rec("Workspace", "Accounting", c) : a \in HardenRows, b \in HardenRows,
                                                     c \in HardenRows}

InitHarden ==
    /\ globalFile = NoFile
    /\ tenantFile = NoFile
    /\ conf = [yaml |-> TRUE, policy_path |-> FALSE, blueprint |-> TRUE, sites_map |-> FALSE]
    /\ dbRoles = [u \in Users |-> {}]
    /\ userPerms = {}
    /\ meta = MetaFields
    /\ LocalInit
    /\ MergeOff
    /\ opts = [dry_run |-> FALSE, harden |-> TRUE, autoname |-> "title"]
    /\ yamls = EmptyDict
    /\ docs = <<>>
    /\ db \in HardenSites
    /\ committed = [db |-> db, userPerms |-> {}, dbRoles |-> [u \in Users |-> {}]]
    /\ commits = <<>>
    /\ plan = EmptyPlan
    /\ applied = EmptyApplied
    /\ ws_summary = EmptyDict
    /\ payload = <<>>
    /\ ppc = "off"
    /\ pidx = 1
    /\ raced = FALSE

\* restrict_standard_workspaces(dry_run, include_modules)
RestrictWorkspaces ==
    \E dry \in BOOLEAN, include_modules \in ModuleScopes :
        LET r == restrict_standard_workspaces(db, dry, include_modules)
        IN /\ db' = r.store
           /\ ws_summary' = r.summary
           /\ IF r.commit THEN Commit("restrict_standard_workspaces", r.store, userPerms,
                                      dbRoles)
              ELSE NoCommit
           /\ ret' = [fn |-> "restrict_standard_workspaces", dry_run |-> dry,
                      include_modules |-> include_modules, before |-> db,
                      out |-> r.summary]
           /\ UNCHANGED <<envVars, zv_policy, rolesCache, upCache, mergeVars, opts, yamls,
                          docs, plan, applied, payload, ppc, pidx, raced>>

HardenNext == RestrictWorkspaces

SpecHarden == InitHarden /\ [][HardenNext]_vars

\* the public Workspaces the call is about: in scope and not excluded
InScope(k) ==
    /\ k[1] = "Workspace"
    /\ \/ ret.include_modules = {}
       \/ ret.before[k]["module"] \in {VStr(m) : m \in ret.include_modules}
Targets ==
    {k \in DOMAIN ret.before :
        InScope(k) /\ k[2] # "Zanaverse Home" /\ DGet(ret.before[k], "public") = VInt(1)}

\* C24: restrict_standard_workspaces with dry_run=False sets public=0 on every public
\* Workspace in scope (all Workspaces, or those whose module is in include_modules) that is
\* not in exclude_names and modifies no other Workspace; with dry_run=True it writes nothing
\* and reports the same changed_names; in both modes examined = changed + skipped, and a
\* second non-dry run changes nothing.
C24_RestrictFlipsExactlyScope ==
    ret.fn = "restrict_standard_workspaces"
    => /\ DOMAIN db = DOMAIN ret.before
       /\ ret.dry_run => db = ret.before
       /\ ~ret.dry_run =>
            \A k \in DOMAIN db :
                db[k] = IF k \in Targets THEN Put(ret.before[k], "public", VInt(0))
                        ELSE ret.before[k]
       /\ ret.out.changed_names = {k[2] : k \in Targets}
       /\ ret.out.examined = ret.out.changed + ret.out.skipped
       /\ ~ret.dry_run =>
            LET again == restrict_standard_workspaces(db, FALSE, ret.include_modules)
            IN again.store = db /\ again.summary.changed = 0 /\ ~again.commit

\* a non-dry run scoped to a module has flipped a Workspace and has left a public Workspace
\* of another module and the public excluded one as they were
C24_Witness ==
    /\ ret.fn = "restrict_standard_workspaces"
    /\ ~ret.dry_run
    /\ ret.include_modules = {"Accounts"}
    /\ ret.out.changed > 0
    /\ IsPublic(db[<<"Workspace", "Zanaverse Home">>])
    /\ \E nm \in HardenNames \ {"Zanaverse Home"} :
          IsPublic(db[<<"Workspace", nm>>]) /\ db[<<"Workspace", nm>>]["module"] = VStr("Core")

(***************************************************************************)
(* Properties of _plan_changes and _apply_plan as a whole                  *)
(***************************************************************************)
PlanLists == {"create", "update", "noop"}
PlanSize(pln) == Len(pln.create) + Len(pln.update) + Len(pln.noop)

\* the step is one pass of the loop of _plan_changes
PlansDoc == ppc = "plan" /\ pidx <= Len(docs) /\ pidx' = pidx + 1

\* the lists of the plan the step has changed
Grown == {l \in PlanLists : plan'[l] # plan[l]}

\* C25: _plan_changes partitions its input: every input document is entered in exactly one
\* of create, update and noop, in create exactly when no persisted record has its resolved
\* identity, and the three lists together are as long as the input.
C25_PlanPartitionsInput ==
    [][/\ PlansDoc =>
            /\ Cardinality(Grown) = 1
            /\ \A l \in Grown :
                  /\ Len(plan'[l]) = Len(plan[l]) + 1
                  /\ SubSeq(plan'[l], 1, Len(plan[l])) = plan[l]
                  /\ LET e == plan'[l][Len(plan'[l])]
                     IN /\ e["doctype"] = docs[pidx]["doctype"]
                        /\ (l = "create") <=> (<<e["doctype"].s, e["name"].s>> \notin DOMAIN db)
            /\ PlanSize(plan') = pidx
       /\ (ppc = "plan" /\ ppc' # "plan") => (PlanSize(plan) = Len(docs))
      ]_vars

\* a blueprint of several documents has been planned: one document is to be created and
\* another one, which the site holds, is entered as update or noop
C25_Witness ==
    /\ ppc \in {"baselines", "dry_harden"}
    /\ Len(docs) >= 2
    /\ plan.create # <<>>
    /\ plan.update # <<>> \/ plan.noop # <<>>
    /\ PlanSize(plan) = Len(docs)

\* the step is one pass of a loop of _apply_plan
AppliesEntry == ppc = "apply" /\ pidx <= Len(plan.create) + Len(plan.update) /\ pidx' = pidx + 1
Reported(app) == Len(app.created) + Len(app.updated)
\* the records the step has written or inserted
Touched == {k \in DOMAIN db' : k \notin DOMAIN db \/ db'[k] # db[k]}

\* C26: when _apply_plan returns normally every create entry is reported exactly once, in
\* created under the name the host assigned or, after the duplicate-key fallback, in updated;
\* every update entry is reported exactly once in updated; the creates are all handled
\* before the first update; nothing but the reported record is written, so no noop entry is;
\* and a create that can be neither inserted nor matched raises instead of being dropped.
C26_ApplyReportsEveryEntry ==
    [][/\ (AppliesEntry /\ ppc' = "apply") =>
            /\ Reported(applied') = Reported(applied) + 1
            /\ Reported(applied') = pidx
            /\ IF pidx <= Len(plan.create)
               THEN LET d == plan.create[pidx]
                    IN \/ /\ applied'.updated = applied.updated
                          /\ \E key \in DOMAIN db' \ DOMAIN db :
                                /\ applied'.created = Append(applied.created, key)
                                /\ key[1] = d["doctype"].s
                                /\ Touched = {key}
                       \/ /\ applied'.created = applied.created
                          /\ d["doctype"] = VStr(TaxTemplate)
                          /\ \E key \in DOMAIN db :
                                /\ applied'.updated = Append(applied.updated, key)
                                /\ key[1] = TaxTemplate
                                /\ Touched \subseteq {key}
               ELSE LET u == plan.update[pidx - Len(plan.create)]
                        key == <<u["doctype"].s, u["name"].s>>
                    IN /\ applied'.created = applied.created
                       /\ applied'.updated = Append(applied.updated, key)
                       /\ Touched \subseteq {key}
       /\ (AppliesEntry /\ ppc' # "apply") =>
            (ppc' = "failed" /\ applied' = applied /\ db' = db)
       /\ (ppc = "apply" /\ ppc' = "companies") =>
            (Reported(applied) = Len(plan.create) + Len(plan.update) /\ db' = db)
      ]_vars

\* _apply_plan has returned after a create that hit a duplicate key and was reported as an
\* update of the record found
C26_Witness ==
    /\ ppc = "companies"
    /\ plan.create # <<>>
    /\ Len(applied.updated) > Len(plan.update)
    /\ Reported(applied) = Len(plan.create) + Len(plan.update)

\* the company of the persisted tax template e names
CompanyOf(e, store) == DGet(store[<<TaxTemplate, e["name"].s>>], "company")

\* C27: tax-template identity resolution stays inside the company: a blueprint template with
\* company C is never planned against a persisted template of another company, and applying
\* the plan never changes the company of a persisted template.
C27_ResolutionStaysInCompany ==
    [][/\ (PlanTaxStep /\ Truthy(DGet(docs[pidx], "company"))) =>
            \A e \in NewEntries :
                Truthy(CompanyOf(e, db)) => CompanyOf(e, db) = docs[pidx]["company"]
       /\ AppliesUpdate =>
            LET u == plan.update[pidx - Len(plan.create)]
            IN (u["doctype"] = VStr(TaxTemplate) /\ Truthy(CompanyOf(u, db)))
               => CompanyOf(u, db') = CompanyOf(u, db)
      ]_vars

(***************************************************************************)
(* collab.py: the ToDo hooks that share a Project with the assignee        *)
(***************************************************************************)
CollabUsers == {"bob", "Administrator"}
ToDoNames == {"td1", "td2"}
ShareNames == {"ds0", "ds1", "ds2", "ds3"}
Privileged == {"Administrator", "System Manager"}

\* str.lower() of the mode texts a policy file gives
Lower(x) ==
    CASE x = "Share_Write" -> "share_write"
      [] x = "SHARE_WRITE" -> "share_write"
      [] x = "Project_User" -> "project_user"
      [] OTHER -> x

\* ((pol.get("collab") or {}).get("on_task_assignment") or "none").lower()
CollabMode ==
    LET c == Get(_load_policy, "collab", Null)
        m == IF c = Null THEN "" ELSE Get(c, "on_task_assignment", "")
    IN IF m = "" THEN "none" ELSE Lower(m)

\* int(v or 0)
IntOr0(v) == IF v.t \in {"int", "bool"} THEN v.n ELSE 0

\* _is_valid_user(user): the user is given and an enabled User of that name exists
_is_valid_user(store, user) ==
    /\ Truthy(user)
    /\ Exists(store, "User", user.s)
    /\ DGet(store[<<"User", user.s>>], "enabled") = VInt(1)

\* getattr(_task_for_todo(doc), "project", None): VNone when the ToDo is not about a Task,
\* the Task is gone or has no project
ProjectOfToDo(store, doc) ==
    IF DGet(doc, "reference_type") # VStr("Task") \/ ~Truthy(DGet(doc, "reference_name"))
    THEN VNone
    ELSE IF ~Exists(store, "Task", doc["reference_name"].s) THEN VNone
    ELSE DGet(store[<<"Task", doc["reference_name"].s>>], "project")

\* frappe.db.get_value("DocShare", {share_doctype: "Project", share_name, user}): the names
\* the host can return, NoName when no share matches
ShareMatches(store, project, user) ==
    LET found == {k[2] : k \in {x \in DOMAIN store :
                     /\ x[1] = "DocShare"
                     /\ DGet(store[x], "share_doctype") = VStr("Project")
                     /\ DGet(store[x], "share_name") = project
                     /\ DGet(store[x], "user") = user}}
    IN IF found = {} THEN {NoName} ELSE found

\* the name the host gives a new DocShare
NewShareName(store) == CHOOSE nm \in ShareNames : ~Exists(store, "DocShare", nm)

\* frappe.db.exists("Project User", {parent: project, user})
HasProjectUser(store, project, user) ==
    LET rows == RowsOf(DGet(store[<<"Project", project.s>>], "users"))
    IN \E i \in 1..Len(rows) : DGet(rows[i], "user") = user

\* the check that looks only at ToDos of the trashed name: it never finds another one
_exists_other_assignment_of_same_todo(store, user, project, exclude_todo_name) ==
    /\ Truthy(user) /\ Truthy(project)
    /\ \E k \in DOMAIN store :
          /\ k[1] = "ToDo"
          /\ k[2] = exclude_todo_name /\ k[2] # exclude_todo_name

\* _exists_other_assignment_on_same_project(user, project, exclude_todo_name)
_exists_other_assignment_on_same_project(store, user, project, exclude_todo_name) ==
    /\ Truthy(user) /\ Truthy(project)
    /\ \E k \in DOMAIN store :
          /\ k[1] = "ToDo"
          /\ k[2] # exclude_todo_name
          /\ DGet(store[k], "reference_type") = VStr("Task")
          /\ DGet(store[k], "allocated_to") = user
          /\ Truthy(DGet(store[k], "reference_name"))
          /\ Exists(store, "Task", store[k]["reference_name"].s)
          /\ DGet(store[<<"Task", store[k]["reference_name"].s>>], "project") = project

\* on_todo_after_insert(doc); sname is what the DocShare lookup returned.  The result is
\* the store and whether frappe.db.commit() ran
on_todo_after_insert(store, doc, sname) ==
    LET mode == CollabMode
        user == DGet(doc, "allocated_to")
        project == ProjectOfToDo(store, doc)
        same == [store |-> store, commit |-> FALSE]
    IN IF mode \notin {"share_write", "project_user"} THEN same
       ELSE IF ~_is_valid_user(store, user) THEN same
       ELSE IF ~Truthy(project) THEN same
       ELSE IF mode = "share_write"
            THEN IF sname # NoName
                 THEN LET ds == store[<<"DocShare", sname>>]
                      IN IF ~(IntOr0(DGet(ds, "read")) = 1 /\ IntOr0(DGet(ds, "write")) = 1)
                         THEN [store |-> Save(store, <<"DocShare", sname>>,
                                              [read |-> VInt(1), write |-> VInt(1)]),
                               commit |-> TRUE]
                         ELSE same
                 ELSE [store |-> Rec("DocShare", NewShareName(store),
                                     [share_doctype |-> VStr("Project"),
                                      share_name |-> project, user |-> user,
                                      read |-> VInt(1), write |-> VInt(1)]) @@ store,
                       commit |-> TRUE]
            ELSE IF ~Exists(store, "Project", project.s) THEN same   \* get_doc raises: logged
            ELSE IF HasProjectUser(store, project, user) THEN same
            ELSE LET proj == store[<<"Project", project.s>>]
                     row == [user |-> user, permission |-> VStr("Write")]
                 IN [store |-> Save(store, <<"Project", project.s>>,
                                    [users |-> VList(Append(RowsOf(DGet(proj, "users")), row))]),
                     commit |-> TRUE]

\* on_todo_on_trash(doc); sname is what the DocShare lookup returned
on_todo_on_trash(store, doc, sname) ==
    LET mode == CollabMode
        assigned_user == DGet(doc, "allocated_to")
        project == ProjectOfToDo(store, doc)
        same == [store |-> store, commit |-> FALSE]
    IN IF mode \notin {"share_write", "project_user"} THEN same
       ELSE IF ~_is_valid_user(store, assigned_user) THEN same
       ELSE IF ~Truthy(project) THEN same
       ELSE IF _exists_other_assignment_on_same_project(store, assigned_user, project,
                                                        doc["name"].s) THEN same
       ELSE IF mode = "share_write" /\ assigned_user.s \notin Privileged /\ sname # NoName
               /\ IntOr0(DGet(store[<<"DocShare", sname>>], "write")) # 0
            THEN [store |-> Save(store, <<"DocShare", sname>>,
                                 [read |-> VInt(1), write |-> VInt(0)]),
                  commit |-> TRUE]
            ELSE same

\* the commits of the hooks a behaviour may hold
MaxCommits == 2

CollabTasks == {"T1", "T2", "T3"}
CollabRefs ==
    {[reference_type |-> VStr("Task"), reference_name |-> VStr(t)] : t \in CollabTasks}
    \cup {[reference_type |-> VStr("Project"), reference_name |-> VStr("P")]}

\* the desk inserts a ToDo; the after_insert hook runs on it
InsertToDo ==
    \E nm \in ToDoNames, ref \in CollabRefs, user \in {VStr(u) : u \in CollabUsers} :
        /\ ~Exists(db, "ToDo", nm)
        /\ Len(commits) < MaxCommits
        /\ LET todo == Rec("ToDo", nm, ref @@ [allocated_to |-> user])
               doc == todo[<<"ToDo", nm>>]
               with == todo @@ db
           IN \E sname \in ShareMatches(with, ProjectOfToDo(with, doc), user) :
                 LET r == on_todo_after_insert(with, doc, sname)
                 IN /\ db' = r.store
                    /\ IF r.commit THEN Commit("on_todo_after_insert", r.store, userPerms,
                                               dbRoles)
                       ELSE NoCommit
                    /\ ret' = [fn |-> "on_todo_after_insert", todo |-> nm, user |-> user,
                               project |-> ProjectOfToDo(with, doc)]
        /\ zv_policy' = <<_load_policy>>
        /\ UNCHANGED <<envVars, rolesCache, upCache, mergeVars, opts, yamls, docs, plan,
                       applied, ws_summary, payload, ppc, pidx, raced>>

\* the desk deletes a ToDo; the on_trash hook runs before the record goes
TrashToDo ==
    \E nm \in ToDoNames :
        /\ Exists(db, "ToDo", nm)
        /\ Len(commits) < MaxCommits
        /\ LET doc == db[<<"ToDo", nm>>]
               user == DGet(doc, "allocated_to")
           IN \E sname \in ShareMatches(db, ProjectOfToDo(db, doc), user) :
                 LET r == on_todo_on_trash(db, doc, sname)
                 IN /\ db' = [k \in DOMAIN r.store \ {<<"ToDo", nm>>} |-> r.store[k]]
                    /\ IF r.commit THEN Commit("on_todo_on_trash", r.store, userPerms, dbRoles)
                       ELSE NoCommit
                    /\ ret' = [fn |-> "on_todo_on_trash", todo |-> nm, user |-> user,
                               project |-> ProjectOfToDo(db, doc)]
        /\ zv_policy' = <<_load_policy>>
        /\ UNCHANGED <<envVars, rolesCache, upCache, mergeVars, opts, yamls, docs, plan,
                       applied, ws_summary, payload, ppc, pidx, raced>>

ShareWriteFile  == File([collab |-> [on_task_assignment |-> "Share_Write"]])
ProjectUserFile == File([collab |-> [on_task_assignment |-> "project_user"]])
NullCollabFile  == File([collab |-> Null])

\* a site with two Projects, three Tasks, the users, and perhaps a share made by hand
CollabSites ==
    {Rec("Project", "P", [users |-> VList(<<>>)]) @@ Rec("Project", "Q", [users |-> VList(<<>>)])
     @@ Rec("Task", "T1", [project |-> VStr("P")]) @@ Rec("Task", "T2", [project |-> VStr("P")])
     @@ Rec("Task", "T3", [project |-> VStr("Q")])
     @@ Rec("User", "Administrator", [enabled |-> VInt(1)])
     @@ Rec("User", "bob", [enabled |-> VInt(e)]) @@ s :
        e \in {0, 1},
        s \in {EmptyDict,
               Rec("DocShare", "ds0", [share_doctype |-> VStr("Project"),
                                       share_name |-> VStr("P"), user |-> VStr("bob"),
                                       read |-> VInt(1), write |-> VInt(0)])}}

InitCollab ==
    /\ globalFile = NoFile
    /\ tenantFile \in {ShareWriteFile, ProjectUserFile, NullCollabFile}
    /\ conf = [yaml |-> TRUE, policy_path |-> FALSE, blueprint |-> TRUE, sites_map |-> FALSE]
    /\ dbRoles = [u \in Users |-> {}]
    /\ userPerms = {}
    /\ meta = MetaFields
    /\ LocalInit
    /\ MergeOff
    /\ opts = [dry_run |-> FALSE, harden |-> FALSE, autoname |-> "title"]
    /\ yamls = EmptyDict
    /\ docs = <<>>
    /\ db \in CollabSites
    /\ committed = [db |-> db, userPerms |-> {}, dbRoles |-> [u \in Users |-> {}]]
    /\ commits = <<>>
    /\ plan = EmptyPlan
    /\ applied = EmptyApplied
    /\ ws_summary = EmptyDict
    /\ payload = <<>>
    /\ ppc = "off"
    /\ pidx = 1
    /\ raced = FALSE

CollabNext == InsertToDo \/ TrashToDo

SpecCollab == InitCollab /\ [][CollabNext]_vars

\* the policy in force names share_write as the collaboration mode
ShareWriteMode == tenantFile = ShareWriteFile

\* the DocShare records of project p for user u
SharesOf(store, p, u) ==
    {k \in DOMAIN store : /\ k[1] = "DocShare"
                          /\ store[k]["share_name"] = p
                          /\ store[k]["user"] = u}

\* the ToDos that assign user u a Task of project p
AssignmentsOf(store, p, u) ==
    {k \in DOMAIN store : /\ k[1] = "ToDo"
                          /\ store[k]["allocated_to"] = u
                          /\ store[k]["reference_type"] = VStr("Task")
                          /\ store[<<"Task", store[k]["reference_name"].s>>]["project"] = p}

EnabledUser(store, u) == u # VNone /\ store[<<"User", u.s>>]["enabled"] = VInt(1)

CanWrite(store, p, u) == \E k \in SharesOf(store, p, u) : store[k]["write"] = VInt(1)

\* after on_todo_after_insert for an enabled user: exactly one share, read and write
SharedAfterInsert ==
    (ret.fn = "on_todo_after_insert" /\ ret.project # VNone /\ EnabledUser(db, ret.user))
    => /\ Cardinality(SharesOf(db, ret.project, ret.user)) = 1
       /\ \A k \in SharesOf(db, ret.project, ret.user) :
             db[k]["read"] = VInt(1) /\ db[k]["write"] = VInt(1)

\* an enabled user with a Task assignment in a project can write to it
AssigneeCanWrite ==
    \A p \in {VStr("P"), VStr("Q")}, u \in {VStr(x) : x \in CollabUsers} :
        (EnabledUser(db, u) /\ AssignmentsOf(db, p, u) # {}) => CanWrite(db, p, u)

\* a step changes a share only by lowering write for the user's last assignment
LowersOnlyLast ==
    \A k \in DOMAIN db :
        k[1] = "DocShare" =>
            /\ k \in DOMAIN db'
            /\ (db'[k]["write"] # db[k]["write"] /\ db'[k]["write"] = VInt(0)) =>
                 /\ ret'.fn = "on_todo_on_trash"
                 /\ db[k]["user"] = ret'.user /\ db[k]["share_name"] = ret'.project
                 /\ AssignmentsOf(db, ret'.project, ret'.user) = {<<"ToDo", ret'.todo>>}
                 /\ db'[k]["read"] = VInt(1)

\* C28: in share_write mode, over any sequence of ToDo insert and trash events: after
\* on_todo_after_insert for an enabled user there is exactly one DocShare of the project for
\* that user, with read=1 and write=1; on_todo_on_trash lowers write to 0 only when the
\* trashed ToDo was the user's last Task assignment in the project, keeps read=1 and never
\* deletes the share; so a user who still has an assignment in the project keeps write
\* access.
C28_ShareFollowsAssignments ==
    /\ [](ShareWriteMode => (SharedAfterInsert /\ AssigneeCanWrite))
    /\ [][ShareWriteMode => LowersOnlyLast]_vars

\* bob has lost one of two assignments in P and still holds the one share with write=1
C28_Witness ==
    /\ ShareWriteMode
    /\ ret.fn = "on_todo_on_trash" /\ ret.user = VStr("bob") /\ ret.project = VStr("P")
    /\ Cardinality(AssignmentsOf(db, VStr("P"), VStr("bob"))) = 1
    /\ Cardinality(SharesOf(db, VStr("P"), VStr("bob"))) = 1
    /\ CanWrite(db, VStr("P"), VStr("bob"))

(***************************************************************************)
(* Provisioning run after run, with the blueprint edited in between        *)
(***************************************************************************)
\* the blueprint after the grants were taken out again: the profile lists another role,
\* the user row names no profile, no company and no brand
RevokedYamls ==
    [GoodYamls EXCEPT !.role_profiles = <<[name |-> "Sales", roles |-> <<"System Manager">>]>>,
                      !.users = <<[email |-> "alice"]>>]

RunYamls == {GoodYamls, RevokedYamls, BadUsersYamls}

ProvisionLogs(store) == {k \in DOMAIN store : k[1] = "Provision Log"}

\* provision(blueprint) is called again, on the site as the last run left it; the
\* blueprint's YAML files may have been edited
NextRun ==
    /\ ppc \in {"returned", "rolled_back"}
    /\ Cardinality(ProvisionLogs(db)) < Len(LogNames)
    /\ yamls' \in RunYamls
    /\ docs' = <<>>
    /\ plan' = EmptyPlan
    /\ applied' = EmptyApplied
    /\ ws_summary' = EmptyDict
    /\ payload' = <<>>
    /\ commits' = <<>>
    /\ ppc' = "collect"
    /\ pidx' = 1
    /\ UNCHANGED <<polVars, mergeVars, opts, db, committed, raced>>

RunSites ==
    {FullSite @@ Rec("Brand", "B1", [brand |-> VStr("B1")]),
     FullSite @@ Rec("Brand", "B1", [brand |-> VStr("B1")])
              @@ Rec("Company", "Acme", [company_name |-> VStr("Acme"), abbr |-> VStr("A"),
                                         domain |-> VStr("Retail")])}

InitRuns ==
    /\ doc_sets = << <<Doc("Company", [name |-> VStr("Acme"), abbr |-> VStr("A"),
                                      domain |-> VStr("Trade")])>> >>
    /\ db \in RunSites
    /\ yamls \in RunYamls
    /\ opts = [dry_run |-> FALSE, harden |-> FALSE, autoname |-> "title"]
    /\ globalFile = NoFile
    /\ tenantFile = NoFile
    /\ conf = [yaml |-> TRUE, policy_path |-> FALSE, blueprint |-> TRUE, sites_map |-> FALSE]
    /\ dbRoles \in [Users -> {{}, {"System Manager"}}]
    /\ userPerms \in {{}, {<<"alice", "Company", "Beta">>}}
    /\ meta = MetaFields
    /\ LocalInit
    /\ mpos = <<1, 1>>
    /\ mergedDocs = [keys |-> <<>>, docs |-> [k \in {} |-> k]]
    /\ mpc = "off"
    /\ docs = <<>>
    /\ committed = [db |-> db, userPerms |-> userPerms, dbRoles |-> dbRoles]
    /\ commits = <<>>
    /\ plan = EmptyPlan
    /\ applied = EmptyApplied
    /\ ws_summary = EmptyDict
    /\ payload = <<>>
    /\ ppc = "collect"
    /\ pidx = 1
    /\ raced = FALSE

RunsNext ==
    \/ CollectBlueprint \/ PlanDoc \/ PlanDone
    \/ EnsureBaselines \/ EnsureModules
    \/ ApplyCreate \/ ApplyUpdate \/ ApplyCommit
    \/ ApplyCompanies \/ ApplyBrands \/ ApplyBrandCustomFields
    \/ ApplyRoleProfiles \/ ApplyModuleProfiles \/ ApplyUsers
    \/ HardenWorkspaces \/ ApplyLetterheads
    \/ FinalCommit \/ LogSuccess
    \/ Rollback \/ NextRun

SpecRuns == InitRuns /\ [][RunsNext]_vars

\* the roles of the persisted Role Profile records
ProfileRoles(store) ==
    [k \in {x \in DOMAIN store : x[1] = "Role Profile"} |-> RolesOfRows(DGet(store[k], "roles"))]

\* access in a is still there in b
Grows(a, b) ==
    /\ \A u \in Users : a.dbRoles[u] \subseteq b.dbRoles[u]
    /\ a.userPerms \subseteq b.userPerms
    /\ \A k \in DOMAIN ProfileRoles(a.db) :
          k \in DOMAIN ProfileRoles(b.db) /\ ProfileRoles(a.db)[k] \subseteq ProfileRoles(b.db)[k]

Working == [db |-> db, userPerms |-> userPerms, dbRoles |-> dbRoles]

SubCategory == "Employee Tax Exemption Sub-Category"
SubCategoryFile ==
    File([pqc_doctypes |-> (SubCategory :> [enabled |-> TRUE, company_field |-> "company"])])

\* dt.lower().replace(" ", "_"), for the doctype names a policy of these sites can hold
LowerUnderscore(dt) ==
    CASE dt = "Lead" -> "lead"
      [] dt = "Opportunity" -> "opportunity"
      [] dt = "Customer" -> "customer"
      [] dt = "Quotation" -> "quotation"
      [] dt = "Sales Order" -> "sales_order"
      [] dt = "Project" -> "project"
      [] dt = "Task" -> "task"
      [] dt = "Employee" -> "employee"
      [] dt = "Job Applicant" -> "job_applicant"
      [] dt = "Job Opening" -> "job_opening"
      [] dt = "Invoice" -> "invoice"
      [] dt = SubCategory -> "employee_tax_exemption_sub-category"

\* re.sub(r"_+", "_", re.sub(r"[^a-z0-9_]+", "_", s)).strip("_") for these texts
Sanitize(s) ==
    IF s = "employee_tax_exemption_sub-category" THEN "employee_tax_exemption_sub_category"
    ELSE s

\* _slug_for_fn(doctype)
_slug_for_fn(doctype) ==
    LET s == Sanitize(LowerUnderscore(doctype))
    IN "pqc_" \o (IF s = "" THEN "unknown" ELSE s)

\* the name hooks.py builds for a doctype: f"pqc_{dt.lower().replace(' ', '_')}"
HookName(dt) == "pqc_" \o LowerUnderscore(dt)

\* the doctypes enabled in the policy _load_policy returns
EnabledDoctypes ==
    LET m == OrEmpty(Get(_load_policy, "pqc_doctypes", EmptyDict))
    IN {dt \in DOMAIN m : m[dt] # Null /\ Get(m[dt], "enabled", FALSE)}

\* the pqc_* functions written out in permissions.py, each with the doctype it evaluates
ExplicitFunctions ==
    {<<_slug_for_fn(dt), dt>> : dt \in ExplicitWrappers \cup {"Project", "Task"}}

\* the module after _autogen_pqc_wrappers(): a function is generated for every enabled
\* doctype whose slug names no attribute of the module yet
_autogen_pqc_wrappers ==
    ExplicitFunctions \cup
    {<<_slug_for_fn(dt), dt>> :
        dt \in {d \in EnabledDoctypes :
                  \A f \in ExplicitFunctions : f[1] # _slug_for_fn(d)}}

\* hasattr(perm, name)
HasAttr(name) == \E f \in _autogen_pqc_wrappers : f[1] = name

\* hooks.py: permission_query_conditions
permission_query_conditions ==
    [dt \in {d \in EnabledDoctypes : HasAttr(HookName(d))} |-> HookName(dt)]

\* the host imports permissions.py and hooks.py
ImportHooks ==
    /\ ret' = [fn |-> "hooks", functions |-> _autogen_pqc_wrappers,
               pqc |-> permission_query_conditions]
    /\ zv_policy' = <<_load_policy>>
    /\ UNCHANGED <<envVars, rolesCache, upCache, mergeVars, provVars>>

InitHooks ==
    /\ globalFile \in {NoFile, LeadOffFile, InvoiceFile}
    /\ tenantFile \in {NoFile, InvoiceFile, LeadOffFile, SubCategoryFile, NullMapFile}
    /\ conf \in Confs
    /\ dbRoles \in [Users -> SUBSET Roles]
    /\ userPerms = {}
    /\ meta = MetaFields
    /\ LocalInit
    /\ MergeOff
    /\ ProvOff

HooksNext == ImportHooks \/ LoadPolicy \/ NewRequest

SpecHooks == InitHooks /\ [][HooksNext]_vars

\* the doctypes the policy of the import enables
EnabledAtImport ==
    LET m == OrEmpty(Get(Policy, "pqc_doctypes", EmptyDict))
    IN {dt \in DOMAIN m : m[dt] # Null /\ Get(m[dt], "enabled", FALSE)}

\* C30: PQC registration is complete and faithful: every doctype enabled in the loaded
\* policy's pqc_doctypes is registered in permission_query_conditions under a function of
\* the module that evaluates the predicate of that same doctype, and no two doctypes share a
\* function.
C30_RegistrationComplete ==
    ret.fn = "hooks"
    => /\ \A dt \in EnabledAtImport :
             /\ dt \in DOMAIN ret.pqc
             /\ <<ret.pqc[dt], dt>> \in ret.functions
       /\ \A d1, d2 \in DOMAIN ret.pqc : ret.pqc[d1] = ret.pqc[d2] => d1 = d2

====
